---- MODULE Spec2Model ----
(***************************************************************************)
(* Request signing and dispatch of the Bitkub REST client                  *)
(* (bitkub/client.py, bitkub/const.py, bitkub/exception.py).               *)
(*                                                                         *)
(* Strings are TLA+ strings; Python and JSON values are tagged records     *)
(* (PyNone, PyStr, PyInt, PyBool, PyList, PyDict).  A dict is the sequence *)
(* of its <<key, value>> items in insertion order.  HMAC-SHA256 is the     *)
(* library's; its hex digest is kept symbolic (HmacSha256Hex).             *)
(***************************************************************************)
EXTENDS Integers, Sequences, FiniteSets, TLC

(***************************************************************************)
(* Bounds of the model.                                                    *)
(***************************************************************************)
\* the first reading of the clock, in half-milliseconds since the epoch
ClockStart == 3401
MaxSignTicks == 1
\* how many half-milliseconds pass at most
MaxTicks == 2
\* clients made in one process: the handlers the "bitkub" logger may collect
MaxHandlers == 4

(***************************************************************************)
(* Python values.                                                          *)
(***************************************************************************)
PyNone == [t |-> "None"]
PyStr(s) == [t |-> "str", s |-> s]
PyInt(i) == [t |-> "int", i |-> i]
PyBool(b) == [t |-> "bool", b |-> b]
PyList(xs) == [t |-> "list", xs |-> xs]
PyDict(kv) == [t |-> "dict", kv |-> kv]

EmptyDict == PyDict(<<>>)

\* bool(v): Python truthiness, as used by `if v`, `not v` and `v or w`
Truthy(v) ==
    CASE v.t = "None" -> FALSE
      [] v.t = "bool" -> v.b
      [] v.t = "int" -> v.i # 0
      [] v.t = "str" -> v.s # ""
      [] v.t = "list" -> Len(v.xs) > 0
      [] v.t = "dict" -> Len(v.kv) > 0
      [] v.t = "float" -> v.f # 0

\* v != 0 in Python: numbers compare by value (False == 0), anything else differs from 0
NotEqualZero(v) ==
    CASE v.t = "int" -> v.i # 0
      [] v.t = "bool" -> v.b
      [] OTHER -> TRUE

\* key in d
DictHas(d, key) == \E n \in 1..Len(d.kv) : d.kv[n][1] = key

\* d.get(key, default)
DictGet(d, key, default) ==
    IF DictHas(d, key)
    THEN d.kv[CHOOSE n \in 1..Len(d.kv) : d.kv[n][1] = key][2]
    ELSE default

\* d[key] = value for a key the dict does not hold yet (insertion order is kept)
DictSet(d, key, value) == PyDict(Append(d.kv, <<key, value>>))

(***************************************************************************)
(* str(), urllib.parse.urlencode and json.dumps, character by character.   *)
(***************************************************************************)
Digits == <<"0", "1", "2", "3", "4", "5", "6", "7", "8", "9">>

RECURSIVE NatToStr(_)
NatToStr(n) == IF n < 10 THEN Digits[n + 1] ELSE NatToStr(n \div 10) \o Digits[(n % 10) + 1]

\* str(i) of an int
IntToStr(i) == IF i < 0 THEN "-" \o NatToStr(0 - i) ELSE NatToStr(i)

\* str(v) / f"{v}" for the scalar values that occur
StrOf(v) ==
    CASE v.t = "str" -> v.s
      [] v.t = "int" -> IntToStr(v.i)
      [] v.t = "None" -> "None"
      [] v.t = "bool" -> IF v.b THEN "True" ELSE "False"

\* characters quote_plus leaves alone
AlwaysSafe ==
    {"A", "B", "C", "D", "E", "F", "G", "H", "I", "J", "K", "L", "M",
     "N", "O", "P", "Q", "R", "S", "T", "U", "V", "W", "X", "Y", "Z",
     "a", "b", "c", "d", "e", "f", "g", "h", "i", "j", "k", "l", "m",
     "n", "o", "p", "q", "r", "s", "t", "u", "v", "w", "x", "y", "z",
     "0", "1", "2", "3", "4", "5", "6", "7", "8", "9", "_", ".", "-", "~"}

\* %XX of the other printable ASCII characters that occur
PercentCode(ch) ==
    CASE ch = "&" -> "%26"
      [] ch = "=" -> "%3D"
      [] ch = "/" -> "%2F"
      [] ch = "?" -> "%3F"
      [] ch = ":" -> "%3A"
      [] ch = "+" -> "%2B"
      [] ch = "," -> "%2C"
      [] ch = "@" -> "%40"
      [] ch = "#" -> "%23"
      [] ch = "%" -> "%25"

RECURSIVE quote_plus(_)
quote_plus(s) ==
    IF s = "" THEN ""
    ELSE (IF Head(s) \in AlwaysSafe THEN Head(s)
          ELSE IF Head(s) = " " THEN "+"
          ELSE PercentCode(Head(s))) \o quote_plus(Tail(s))

RECURSIVE urlencode_items(_)
urlencode_items(kv) ==
    IF Len(kv) = 0 THEN ""
    ELSE quote_plus(kv[1][1]) \o "=" \o quote_plus(StrOf(kv[1][2]))
         \o (IF Len(kv) = 1 THEN "" ELSE "&" \o urlencode_items(Tail(kv)))

\* urlencode(query_params)
urlencode(query) == urlencode_items(query.kv)

RECURSIVE json_escape(_)
json_escape(s) ==
    IF s = "" THEN ""
    ELSE (IF Head(s) = "\"" THEN "\\\""
          ELSE IF Head(s) = "\\" THEN "\\\\"
          ELSE Head(s)) \o json_escape(Tail(s))

json_string(s) == "\"" \o json_escape(s) \o "\""

\* the item separator of a compact encoding
ITEM_SEPARATOR_compact == ","

\* the default separators of json.dumps
ITEM_SEPARATOR == ", "
KEY_SEPARATOR == ": "

RECURSIVE json_dumps(_)
RECURSIVE json_dumps_items(_)
RECURSIVE json_dumps_elems(_)
json_dumps_items(kv) ==
    IF Len(kv) = 0 THEN ""
    ELSE json_string(kv[1][1]) \o KEY_SEPARATOR \o json_dumps(kv[1][2])
         \o (IF Len(kv) = 1 THEN "" ELSE ITEM_SEPARATOR \o json_dumps_items(Tail(kv)))
json_dumps_elems(xs) ==
    IF Len(xs) = 0 THEN ""
    ELSE json_dumps(xs[1])
         \o (IF Len(xs) = 1 THEN "" ELSE ITEM_SEPARATOR \o json_dumps_elems(Tail(xs)))
\* json.dumps(v)
json_dumps(v) ==
    CASE v.t = "None" -> "null"
      [] v.t = "bool" -> (IF v.b THEN "true" ELSE "false")
      [] v.t = "int" -> IntToStr(v.i)
      [] v.t = "str" -> json_string(v.s)
      [] v.t = "list" -> "[" \o json_dumps_elems(v.xs) \o "]"
      [] v.t = "dict" -> "{" \o json_dumps_items(v.kv) \o "}"

(***************************************************************************)
(* bitkub/exception.py and the transport's exceptions.                     *)
(***************************************************************************)
BitkubException(message) == [exc |-> "BitkubException", message |-> message]

\* the API error raised as the request error's class
BitkubAPIException_as_request_error(message, code) ==
    [exc |-> "BitkubException", message |-> message, code |-> code]

BitkubAPIException(message, code) ==
    [exc |-> "BitkubAPIException", message |-> message, code |-> code]

\* what requests raises when the transport itself fails
TransportExceptions ==
    {[exc |-> "requests.exceptions.Timeout", message |-> "Request timed out"],
     [exc |-> "requests.exceptions.ConnectionError", message |-> "Connection failed"]}

Return(value) == [kind |-> "return", value |-> value]
Raise(error) == [kind |-> "raise", error |-> error]
NoOutcome == [kind |-> "none"]

(***************************************************************************)
(* BaseClient.                                                             *)
(***************************************************************************)
\* hmac.new(key, msg, hashlib.sha256).hexdigest(), symbolic
HmacSha256Hex(key, msg) == "hmac-sha256(" \o key \o "," \o msg \o ")"

\* _sign without its guard: an unset secret signs as an empty key
_sign_unguarded(cl, payload_string) ==
    Return(HmacSha256Hex(IF Truthy(cl.api_secret) THEN cl.api_secret.s ELSE "",
                         payload_string))

\* BaseClient._sign
_sign(cl, payload_string) ==
    IF ~Truthy(cl.api_secret)
    THEN Raise(BitkubException("API secret not set"))
    ELSE Return(HmacSha256Hex(cl.api_secret.s, payload_string))

\* _private_headers with its two arguments swapped
_private_headers_swapped(cl, ts, sig) ==
    ("Accept" :> "application/json")
    @@ ("Content-Type" :> "application/json")
    @@ ("X-BTK-TIMESTAMP" :> sig)
    @@ ("X-BTK-SIGN" :> ts)
    @@ ("X-BTK-APIKEY" :> (IF Truthy(cl.api_key) THEN cl.api_key.s ELSE ""))

\* _private_headers that leaves X-BTK-APIKEY out when there is no key
_private_headers_key_omitted(cl, ts, sig) ==
    LET common == ("Accept" :> "application/json")
                  @@ ("Content-Type" :> "application/json")
                  @@ ("X-BTK-TIMESTAMP" :> ts)
                  @@ ("X-BTK-SIGN" :> sig)
    IN  IF Truthy(cl.api_key) THEN common @@ ("X-BTK-APIKEY" :> cl.api_key.s) ELSE common

\* headers that carry the secret where the key belongs
_private_headers_secret_as_key(cl, ts, sig) ==
    ("Accept" :> "application/json")
    @@ ("Content-Type" :> "application/json")
    @@ ("X-BTK-TIMESTAMP" :> ts)
    @@ ("X-BTK-SIGN" :> sig)
    @@ ("X-BTK-APIKEY" :> (IF Truthy(cl.api_secret) THEN cl.api_secret.s ELSE ""))

\* BaseClient._private_headers
_private_headers(cl, ts, sig) ==
    ("Accept" :> "application/json")
    @@ ("Content-Type" :> "application/json")
    @@ ("X-BTK-TIMESTAMP" :> ts)
    @@ ("X-BTK-SIGN" :> sig)
    @@ ("X-BTK-APIKEY" :> (IF Truthy(cl.api_key) THEN cl.api_key.s ELSE ""))

\* BaseClient._public_headers
_public_headers ==
    ("Accept" :> "application/json")
    @@ ("Content-Type" :> "application/json")

(***************************************************************************)
(* Responses and Client._guard_errors / Client._handle_response.           *)
(***************************************************************************)
InvalidJson == [t |-> "ValueError"]

\* response.json() of the response bodies the transport answers with
JsonLoads(text) ==
    CASE text = "{\"error\": 0, \"result\": 1}" ->
             PyDict(<< <<"error", PyInt(0)>>, <<"result", PyInt(1)>> >>)
      [] text = "{\"error\": 5}" ->
             PyDict(<< <<"error", PyInt(5)>> >>)
      [] text = "{\"error\": 1, \"message\": \"Invalid API key\"}" ->
             PyDict(<< <<"error", PyInt(1)>>, <<"message", PyStr("Invalid API key")>> >>)
      [] text = "{\"error\": \"Invalid API key\"}" ->
             PyDict(<< <<"error", PyStr("Invalid API key")>> >>)
      [] text = "{\"error\": null}" ->
             PyDict(<< <<"error", PyNone>> >>)
      [] text = "{\"result\": 1}" ->
             PyDict(<< <<"result", PyInt(1)>> >>)
      [] text = "[{\"status\": \"ok\"}]" ->
             PyList(<< PyDict(<< <<"status", PyStr("ok")>> >>) >>)
      [] text = "1529999999" ->
             PyInt(1529999999)
      [] text = "{\"THB_BTC\": {\"id\": 1, \"last\": 100}}" ->
             PyDict(<< <<"THB_BTC", PyDict(<< <<"id", PyInt(1)>>, <<"last", PyInt(100)>> >>)>> >>)
      [] OTHER -> InvalidJson

\* _guard_errors that lets status 300 through
_guard_errors_above_300(response) ==
    IF response.status_code < 200 \/ response.status_code > 300
    THEN Raise(BitkubException(IntToStr(response.status_code) \o " : " \o response.text))
    ELSE NoOutcome

\* Client._guard_errors: the exception it raises, or NoOutcome
_guard_errors(response) ==
    IF response.status_code < 200 \/ response.status_code >= 300
    THEN Raise(BitkubException(IntToStr(response.status_code) \o " : " \o response.text))
    ELSE NoOutcome

\* the in-band check of Client._handle_response (client.py 105-107)
IsApiError(data) ==
    /\ data.t = "dict"
    /\ DictHas(data, "error")
    /\ Truthy(DictGet(data, "error", PyNone))
    /\ NotEqualZero(DictGet(data, "error", PyNone))

\* _handle_response that parses the body before it looks at the status
_handle_response_json_first(response) ==
    LET data == JsonLoads(response.text) IN
    IF data = InvalidJson THEN Raise(BitkubException("Invalid JSON response"))
    ELSE IF _guard_errors(response).kind = "raise" THEN _guard_errors(response)
    ELSE IF IsApiError(data)
         THEN LET error_code == DictGet(data, "error", PyNone) IN
              Raise(BitkubAPIException(
                  DictGet(data, "message", PyStr("API Error " \o StrOf(error_code))),
                  error_code))
         ELSE Return(data)

\* _handle_response whose default message leaves the code out
_handle_response_bare_default(response) ==
    IF _guard_errors(response).kind = "raise" THEN _guard_errors(response)
    ELSE LET data == JsonLoads(response.text) IN
         IF data = InvalidJson THEN Raise(BitkubException("Invalid JSON response"))
         ELSE IF IsApiError(data)
              THEN Raise(BitkubAPIException(DictGet(data, "message", PyStr("API Error")),
                                            DictGet(data, "error", PyNone)))
              ELSE Return(data)

\* _handle_response that hands back the `result` field of an envelope
_handle_response_unwrapped(response) ==
    IF _guard_errors(response).kind = "raise" THEN _guard_errors(response)
    ELSE LET data == JsonLoads(response.text) IN
         IF data = InvalidJson THEN Raise(BitkubException("Invalid JSON response"))
         ELSE IF IsApiError(data)
              THEN LET error_code == DictGet(data, "error", PyNone) IN
                   Raise(BitkubAPIException(
                       DictGet(data, "message", PyStr("API Error " \o StrOf(error_code))),
                       error_code))
              ELSE IF data.t = "dict" /\ DictHas(data, "result")
                   THEN Return(DictGet(data, "result", PyNone))
                   ELSE Return(data)

\* Client._handle_response
_handle_response(response) ==
    IF _guard_errors(response).kind = "raise" THEN _guard_errors(response)
    ELSE LET data == JsonLoads(response.text) IN
         IF data = InvalidJson THEN Raise(BitkubException("Invalid JSON response"))
         ELSE IF IsApiError(data)
              THEN LET error_code == DictGet(data, "error", PyNone) IN
                   Raise(BitkubAPIException(
                       DictGet(data, "message", PyStr("API Error " \o StrOf(error_code))),
                       error_code))
              ELSE Return(data)

(***************************************************************************)
(* bitkub/const.py.                                                        *)
(***************************************************************************)
GET == "GET"
POST == "POST"
DELETE == "DELETE"

Endpoints ==
    [STATUS |-> "/api/status",
     MARKET_SYMBOLS |-> "/api/market/symbols",
     MARKET_TICKER |-> "/api/v3/market/ticker",
     MARKET_TRADES |-> "/api/v3/market/trades",
     MARKET_BIDS |-> "/api/v3/market/bids",
     MARKET_ASKS |-> "/api/v3/market/asks",
     MARKET_BOOKS |-> "/api/market/books",
     MARKET_DEPTH |-> "/api/v3/market/depth",
     TRADING_VIEW_HISTORY |-> "/tradingview/history",
     SERVER_TIME |-> "/api/v3/servertime",
     USER_LIMITS |-> "/api/v3/user/limits",
     USER_TRADING_CREDITS |-> "/api/v3/user/trading-credits",
     MARKET_WALLET |-> "/api/v3/market/wallet",
     MARKET_BALANCES |-> "/api/v3/market/balances",
     MARKET_PLACE_BID |-> "/api/v3/market/place-bid",
     MARKET_PLACE_ASK |-> "/api/v3/market/place-ask",
     MARKET_CANCEL_ORDER |-> "/api/v3/market/cancel-order",
     MARKET_WSTOKEN |-> "/api/v3/market/wstoken",
     MARKET_MY_OPEN_ORDERS |-> "/api/v3/market/my-open-orders",
     MARKET_MY_ORDER_HISTORY |-> "/api/v3/market/my-order-history",
     MARKET_ORDER_INFO |-> "/api/v3/market/order-info",
     CRYPTO_INTERNAL_WITHDRAW |-> "/api/v3/crypto/internal-withdraw",
     CRYPTO_ADDRESSES |-> "/api/v3/crypto/addresses",
     CRYPTO_WITHDRAW |-> "/api/v3/crypto/withdraw",
     CRYPTO_DEPOSIT_HISTORY |-> "/api/v3/crypto/deposit-history",
     CRYPTO_WITHDRAW_HISTORY |-> "/api/v3/crypto/withdraw-history",
     CRYPTO_GENERATE_ADDRESS |-> "/api/v3/crypto/generate-address",
     CRYPTO_V4_ADDRESSES |-> "/api/v4/crypto/addresses",
     CRYPTO_V4_DEPOSITS |-> "/api/v4/crypto/deposits",
     CRYPTO_V4_WITHDRAWS |-> "/api/v4/crypto/withdraws",
     CRYPTO_V4_COINS |-> "/api/v4/crypto/coins",
     CRYPTO_V4_COMPENSATIONS |-> "/api/v4/crypto/compensations",
     FIAT_ACCOUNTS |-> "/api/v3/fiat/accounts",
     FIAT_WITHDRAW |-> "/api/v3/fiat/withdraw",
     FIAT_DEPOSIT_HISTORY |-> "/api/v3/fiat/deposit-history",
     FIAT_WITHDRAW_HISTORY |-> "/api/v3/fiat/withdraw-history"]

(***************************************************************************)
(* The request entry points of Client and the endpoint methods.  Each      *)
(* yields the arguments its call hands to _send_private_request            *)
(* (private = TRUE) or to _send_public_request (private = FALSE).          *)
(***************************************************************************)
Dispatch(private, method, path, body, query_params) ==
    [private |-> private, method |-> method, path |-> path,
     body |-> body, query_params |-> query_params]

\* _send_api_request that never signs
_send_api_request_unsigned(method, path, body, query_params, authenticated) ==
    Dispatch(FALSE, method, path,
             IF body = PyNone THEN EmptyDict ELSE body,
             IF query_params = PyNone THEN EmptyDict ELSE query_params)

\* Client._send_api_request
_send_api_request(method, path, body, query_params, authenticated) ==
    Dispatch(authenticated, method, path,
             IF body = PyNone THEN EmptyDict ELSE body,
             IF query_params = PyNone THEN EmptyDict ELSE query_params)

\* Client.__send_request (the legacy private method)
_Client__send_request(method, path, body, query_params) ==
    Dispatch(TRUE, method, path,
             IF Truthy(body) THEN body ELSE EmptyDict,
             IF Truthy(query_params) THEN query_params ELSE EmptyDict)

\* the direct calls of _send_public_request by the public endpoint methods
_send_public_request(method, path, body, query_params) ==
    Dispatch(FALSE, method, path, body, query_params)

\* params[key] = value, under a condition
SetIf(cond, d, key, value) == IF cond THEN DictSet(d, key, value) ELSE d

Dict1(k1, v1) == PyDict(<< <<k1, v1>> >>)
Dict2(k1, v1, k2, v2) == PyDict(<< <<k1, v1>>, <<k2, v2>> >>)

\* argument values the endpoint methods are called with
Symbols == {PyNone, PyStr(""), PyStr("THB_BTC")}
Pages == {PyNone, PyInt(0), PyInt(1)}
Limits == {PyNone, PyInt(0), PyInt(10)}
Times == {PyNone, PyInt(5)}
ArgSets == [symbol : Symbols, page : Pages, limit : Limits,
            start_time : Times, end_time : Times]

\* the arguments the methods take beyond those of ArgSets, one value each
Amount == PyInt(100)
Rate == PyInt(5)
OrderType == PyStr("limit")
ClientId == PyStr("")
OrderId == PyStr("54")
Side == PyStr("buy")
OrderHash == PyStr("fwQ6dn/Q=+")
Currency == PyStr("BTC")
Address == PyStr("3BtxdKw6XSbneNvmJTLVHS9XfNYM7VAe8k")
Network == PyStr("BTC")
Memo == PyStr("memo 1")
BankId == PyStr("7262109099")
Resolution == PyStr("1D")
DepositStatus == PyStr("complete")

PublicMethods ==
    {"fetch_server_time", "fetch_status", "fetch_symbols", "fetch_tickers",
     "fetch_trades", "fetch_bids", "fetch_asks", "fetch_order_books",
     "fetch_depth", "fetch_trading_view_history"}

PrivateV3Methods ==
    {"fetch_user_limits", "fetch_user_trade_credit", "fetch_wallet", "fetch_balances",
     "create_order_buy", "create_order_sell", "cancel_order", "create_websocket_token",
     "fetch_open_orders", "fetch_order_history", "fetch_order_info", "withdraw",
     "fetch_addresses", "fetch_deposits", "fetch_withdrawals", "fetch_fiat_accounts",
     "withdraw_fiat", "fetch_fiat_deposits", "fetch_fiat_withdrawals"}

CryptoV4Methods ==
    {"fetch_crypto_addresses_v4", "generate_crypto_address_v4",
     "fetch_crypto_deposits_v4", "fetch_crypto_withdraws_v4",
     "fetch_crypto_coins_v4", "fetch_crypto_compensations_v4"}

EndpointMethods == PublicMethods \cup PrivateV3Methods \cup CryptoV4Methods

\* {"sym": symbol, "lmt": limit}
SymLmt(a) == Dict2("sym", a.symbol, "lmt", a.limit)

\* {"p": page, "lmt": limit}
PageLmt(a) == Dict2("p", a.page, "lmt", a.limit)

\* the body of create_order_buy and create_order_sell
OrderBody(a) ==
    PyDict(<< <<"sym", a.symbol>>, <<"amt", Amount>>, <<"rat", Rate>>,
              <<"typ", OrderType>>, <<"client_id", ClientId>> >>)

\* params that leave out only the arguments that are None
OrderHistoryParams_zero_sent(a) ==
    SetIf(a.end_time # PyNone,
      SetIf(a.start_time # PyNone,
        SetIf(a.limit # PyNone,
          SetIf(a.page # PyNone, Dict1("sym", a.symbol), "p", a.page),
          "lmt", a.limit),
        "start", a.start_time),
      "end", a.end_time)

\* the params of fetch_order_history
OrderHistoryParams(a) ==
    SetIf(Truthy(a.end_time),
      SetIf(Truthy(a.start_time),
        SetIf(Truthy(a.limit),
          SetIf(Truthy(a.page), Dict1("sym", a.symbol), "p", a.page),
          "lmt", a.limit),
        "start", a.start_time),
      "end", a.end_time)

\* the params of fetch_order_info
OrderInfoParams(a) ==
    SetIf(Truthy(OrderHash),
      SetIf(Truthy(Side),
        SetIf(Truthy(OrderId),
          SetIf(Truthy(a.symbol), EmptyDict, "sym", a.symbol),
          "id", OrderId),
        "sd", Side),
      "hash", OrderHash)

\* the params of fetch_crypto_addresses_v4
AddressesV4Params(a) ==
    SetIf(Truthy(Memo),
      SetIf(Truthy(Network),
        SetIf(Truthy(a.symbol),
          SetIf(a.limit # PyNone,
            SetIf(a.page # PyNone, EmptyDict, "page", a.page),
            "limit", a.limit),
          "symbol", a.symbol),
        "network", Network),
      "memo", Memo)

\* the params of fetch_crypto_deposits_v4 and fetch_crypto_withdraws_v4
HistoryV4Params(a) ==
    SetIf(a.end_time # PyNone,
      SetIf(a.start_time # PyNone,
        SetIf(Truthy(DepositStatus),
          SetIf(Truthy(a.symbol),
            SetIf(a.limit # PyNone,
              SetIf(a.page # PyNone, EmptyDict, "page", a.page),
              "limit", a.limit),
            "symbol", a.symbol),
          "status", DepositStatus),
        "created_start", a.start_time),
      "created_end", a.end_time)

\* the endpoint methods of Client (client.py 181-884), called with arguments a
EndpointCall(name, a) ==
    CASE name = "fetch_server_time" ->
             _send_public_request(GET, Endpoints.SERVER_TIME, EmptyDict, EmptyDict)
      [] name = "fetch_status" ->
             _send_public_request(GET, Endpoints.STATUS, EmptyDict, EmptyDict)
      [] name = "fetch_symbols" ->
             _send_public_request(GET, Endpoints.MARKET_SYMBOLS, EmptyDict, EmptyDict)
      [] name = "fetch_tickers" ->
             _send_public_request(GET, Endpoints.MARKET_TICKER, EmptyDict,
                 IF Truthy(a.symbol) THEN Dict1("sym", a.symbol) ELSE EmptyDict)
      [] name = "fetch_trades" ->
             _send_public_request(GET, Endpoints.MARKET_TRADES, EmptyDict, SymLmt(a))
      [] name = "fetch_bids" ->
             _send_public_request(GET, Endpoints.MARKET_BIDS, EmptyDict, SymLmt(a))
      [] name = "fetch_asks" ->
             _send_public_request(GET, Endpoints.MARKET_ASKS, EmptyDict, SymLmt(a))
      [] name = "fetch_order_books" ->
             _send_public_request(GET, Endpoints.MARKET_BOOKS, EmptyDict, SymLmt(a))
      [] name = "fetch_depth" ->
             _send_public_request(GET, Endpoints.MARKET_DEPTH, EmptyDict, SymLmt(a))
      [] name = "fetch_trading_view_history" ->
             _send_public_request(GET, Endpoints.TRADING_VIEW_HISTORY, EmptyDict,
                 PyDict(<< <<"symbol", a.symbol>>, <<"resolution", Resolution>>,
                           <<"from", a.start_time>>, <<"to", a.end_time>> >>))
      [] name = "fetch_user_limits" ->
             _Client__send_request(POST, Endpoints.USER_LIMITS, PyNone, PyNone)
      [] name = "fetch_user_trade_credit" ->
             _Client__send_request(POST, Endpoints.USER_TRADING_CREDITS, PyNone, PyNone)
      [] name = "fetch_wallet" ->
             _Client__send_request(POST, Endpoints.MARKET_WALLET, PyNone, PyNone)
      [] name = "fetch_balances" ->
             _Client__send_request(POST, Endpoints.MARKET_BALANCES, PyNone, PyNone)
      [] name = "create_order_buy" ->
             _Client__send_request(POST, Endpoints.MARKET_PLACE_BID, OrderBody(a), PyNone)
      [] name = "create_order_sell" ->
             _Client__send_request(POST, Endpoints.MARKET_PLACE_ASK, OrderBody(a), PyNone)
      [] name = "cancel_order" ->
             _Client__send_request(POST, Endpoints.MARKET_CANCEL_ORDER,
                 PyDict(<< <<"sym", a.symbol>>, <<"id", OrderId>>,
                           <<"sd", Side>>, <<"hash", OrderHash>> >>), PyNone)
      [] name = "create_websocket_token" ->
             _Client__send_request(POST, Endpoints.MARKET_WSTOKEN, PyNone, PyNone)
      [] name = "fetch_open_orders" ->
             _Client__send_request(GET, Endpoints.MARKET_MY_OPEN_ORDERS, PyNone,
                 Dict1("sym", a.symbol))
      [] name = "fetch_order_history" ->
             _Client__send_request(GET, Endpoints.MARKET_MY_ORDER_HISTORY, PyNone,
                 OrderHistoryParams(a))
      [] name = "fetch_order_info" ->
             _Client__send_request(GET, Endpoints.MARKET_ORDER_INFO, PyNone,
                 OrderInfoParams(a))
      [] name = "withdraw" ->
             _Client__send_request(POST, Endpoints.CRYPTO_WITHDRAW,
                 PyDict(<< <<"cur", Currency>>, <<"amt", Amount>>, <<"adr", Address>>,
                           <<"mem", PyNone>>, <<"net", Network>> >>), PyNone)
      [] name = "fetch_addresses" ->
             _Client__send_request(POST, Endpoints.CRYPTO_ADDRESSES, PyNone, PyNone)
      [] name = "fetch_deposits" ->
             _Client__send_request(POST, Endpoints.CRYPTO_DEPOSIT_HISTORY, PyNone, PageLmt(a))
      [] name = "fetch_withdrawals" ->
             _Client__send_request(POST, Endpoints.CRYPTO_WITHDRAW_HISTORY, PyNone, PageLmt(a))
      [] name = "fetch_fiat_accounts" ->
             _Client__send_request(POST, Endpoints.FIAT_ACCOUNTS, PyNone, PyNone)
      [] name = "withdraw_fiat" ->
             _Client__send_request(POST, Endpoints.FIAT_WITHDRAW,
                 Dict2("amt", Amount, "id", BankId), PyNone)
      [] name = "fetch_fiat_deposits" ->
             _Client__send_request(POST, Endpoints.FIAT_DEPOSIT_HISTORY, PyNone, PageLmt(a))
      [] name = "fetch_fiat_withdrawals" ->
             _Client__send_request(POST, Endpoints.FIAT_WITHDRAW_HISTORY, PyNone, PageLmt(a))
      [] name = "fetch_crypto_addresses_v4" ->
             _send_api_request(GET, Endpoints.CRYPTO_V4_ADDRESSES, PyNone,
                 AddressesV4Params(a), TRUE)
      [] name = "generate_crypto_address_v4" ->
             _send_api_request(POST, Endpoints.CRYPTO_V4_ADDRESSES,
                 Dict2("symbol", a.symbol, "network", Network), PyNone, TRUE)
      [] name = "fetch_crypto_deposits_v4" ->
             _send_api_request(GET, Endpoints.CRYPTO_V4_DEPOSITS, PyNone,
                 HistoryV4Params(a), TRUE)
      [] name = "fetch_crypto_withdraws_v4" ->
             _send_api_request(GET, Endpoints.CRYPTO_V4_WITHDRAWS, PyNone,
                 HistoryV4Params(a), TRUE)
      [] name = "fetch_crypto_coins_v4" ->
             _send_api_request(GET, Endpoints.CRYPTO_V4_COINS, PyNone, PyNone, TRUE)
      [] name = "fetch_crypto_compensations_v4" ->
             _send_api_request(GET, Endpoints.CRYPTO_V4_COMPENSATIONS, PyNone, PyNone, TRUE)

(***************************************************************************)
(* State.                                                                  *)
(***************************************************************************)
VARIABLES
    client,     \* _api_key, _api_secret, _base_url of the Client
    now,        \* the clock, in half-milliseconds
    pc,         \* per caller: where its call stands
    call,       \* per caller: the endpoint method called and what it dispatches
    frame,      \* per caller: the locals of _send_private_request / _send_public_request
    wire,       \* per caller: the arguments session.request was called with
    sends,      \* per caller: how often the call has called session.request
    logged,     \* per caller: the arguments of the call's logger.debug
    resp,       \* per caller: the response session.request returned
    fault,      \* per caller: the exception session.request raised
    outcome,    \* per caller: what the call returns or raises
    times,      \* per caller: the clock when the call started, read the clock and sent
    loggers,    \* the loggers of the logging module, by name: the level of each
    history     \* the client as it was made, and per caller the outcome of its last call

vars == <<client, now, pc, call, frame, wire, sends, logged, resp, fault, outcome, times,
          loggers, history>>

\* the callers that may be inside a call
Threads == {"t1", "t2"}

None == [kind |-> "none"]

\* the clients that are constructed
ClientConfigs ==
    {[api_key |-> k, api_secret |-> s, base_url |-> "https://api.bitkub.com"] :
        k \in {PyStr("api-key")}, s \in {PyNone, PyStr(""), PyStr("api-secret")}}
    \cup
    {[api_key |-> k, api_secret |-> PyStr("api-secret"), base_url |-> "https://api.bitkub.com"] :
        k \in {PyNone, PyStr("")}}

\* the responses the transport answers with
StatusCodes == {199, 200, 299, 300, 400}
ResponseTexts ==
    {"{\"error\": 0, \"result\": 1}",
     "{\"error\": 5}",
     "{\"error\": 1, \"message\": \"Invalid API key\"}",
     "{\"error\": \"Invalid API key\"}",
     "{\"error\": null}",
     "{\"result\": 1}",
     "[{\"status\": \"ok\"}]",
     "1529999999",
     "Invalid API key"}
Responses == [status_code : StatusCodes, text : ResponseTexts]

\* logging.INFO, logging.DEBUG and logging.ERROR
INFO == 20
DEBUG == 10
ERROR == 40

\* the logging_level a client was made with: logging.INFO unless one is passed
LoggingLevelOf(cl) == IF "logging_level" \in DOMAIN cl THEN cl.logging_level ELSE INFO

\* the state after Client(...) was made with one of `configs`
InitOf(configs) ==
    /\ client \in configs
    /\ now = ClockStart
    /\ pc = [t \in Threads |-> "idle"]
    /\ call = [t \in Threads |-> None]
    /\ frame = [t \in Threads |-> None]
    /\ wire = [t \in Threads |-> None]
    /\ sends = [t \in Threads |-> 0]
    /\ logged = [t \in Threads |-> None]
    /\ resp = [t \in Threads |-> None]
    /\ fault = [t \in Threads |-> None]
    /\ outcome = [t \in Threads |-> NoOutcome]
    /\ times = [t \in Threads |-> None]
    /\ loggers = [name \in {"bitkub"} |->
                      [level |-> LoggingLevelOf(client), handlers |-> 1]]
    /\ history = [made |-> client, last |-> [t \in Threads |-> NoOutcome]]

Init == InitOf(ClientConfigs)

(***************************************************************************)
(* Client._send_private_request and Client._send_public_request.           *)
(***************************************************************************)
\* round(x) of x = h / 2: to the nearest integer, a tie to the even one
RoundHalf(h) ==
    IF h % 2 = 0 THEN h \div 2
    ELSE IF (h \div 2) % 2 = 0 THEN h \div 2 ELSE (h \div 2) + 1

\* a timestamp computed once, when the client was made, and kept
Timestamp_cached(h) == IntToStr(RoundHalf(ClockStart))

\* str(round(time.time() * 1000)) when the clock reads h half-milliseconds
Timestamp(h) == IntToStr(RoundHalf(h))

\* client.py 139-140
PathWithQuery(path, query_params) ==
    IF Truthy(query_params) THEN path \o "?" \o urlencode(query_params) ELSE path

\* the payload with the method before the timestamp
CanonicalPayload_method_first(ts, method, path, str_body) == <<method, ts, path, str_body>>

\* payload = [ts, method, path, str_body]
CanonicalPayload(ts, method, path, str_body) == <<ts, method, path, str_body>>

\* "".join(payload)
RECURSIVE Join(_)
Join(parts) == IF Len(parts) = 0 THEN "" ELSE Head(parts) \o Join(Tail(parts))

\* self._base_url + path
RequestUrl(base_url, path) == base_url \o path

\* _send_private_request that reads the clock a second time for the payload
PrivateFrame_second_clock_read(cl, h, d) ==
    LET ts == Timestamp(h)
        str_body == json_dumps(d.body)
        path == PathWithQuery(d.path, d.query_params)
        payload == CanonicalPayload(Timestamp(h + 2), d.method, path, str_body)
    IN  [ts |-> ts, str_body |-> str_body, path |-> path, payload |-> payload,
         sig |-> _sign(cl, Join(payload))]

\* client.py 137-142: the locals of _send_private_request up to the signature
PrivateFrame(cl, h, d) ==
    LET ts == Timestamp(h)
        str_body == json_dumps(d.body)
        path == PathWithQuery(d.path, d.query_params)
        payload == CanonicalPayload(ts, d.method, path, str_body)
    IN  [ts |-> ts, str_body |-> str_body, path |-> path, payload |-> payload,
         sig |-> _sign(cl, Join(payload))]

\* _send_private_request that hands the query to the session instead of the URL
PrivateWire_query_as_params(cl, d, f) ==
    [method |-> d.method,
     url |-> RequestUrl(cl.base_url, d.path),
     headers |-> _private_headers(cl, f.ts, f.sig.value),
     data |-> f.str_body,
     params |-> d.query_params]

\* client.py 144-152: the session.request of _send_private_request
PrivateWire(cl, d, f) ==
    [method |-> d.method,
     url |-> RequestUrl(cl.base_url, f.path),
     headers |-> _private_headers(cl, f.ts, f.sig.value),
     data |-> f.str_body,
     params |-> PyNone]

\* client.py 159: the locals of _send_public_request
PublicFrame(d) == [str_body |-> json_dumps(d.body), path |-> d.path]

\* client.py 162-168: the session.request of _send_public_request
PublicWire(cl, d, f) ==
    [method |-> d.method,
     url |-> RequestUrl(cl.base_url, f.path),
     headers |-> _public_headers,
     data |-> f.str_body,
     params |-> d.query_params]

\* a call that starts over when the response is an error
AfterResponse_retry(result) == IF result.kind = "raise" THEN "called" ELSE "done"

\* a call ends with what _handle_response returns or raises: nothing is sent again
AfterResponse(result) == "done"

\* a transport exception converted to the request error
TransportOutcome_wrapped(error) == Raise(BitkubException(error.message))

\* session.request is not inside a try: what it raises leaves the call unchanged
TransportOutcome(error) == Raise(error)

\* the locals kept in one place for all callers: a call sends what the other signed
OwnFrame_shared(frames, t) ==
    IF \E u \in DOMAIN frames : u # t /\ frames[u] # None /\ "sig" \in DOMAIN frames[u]
    THEN frames[CHOOSE u \in DOMAIN frames :
                    u # t /\ frames[u] # None /\ "sig" \in DOMAIN frames[u]]
    ELSE frames[t]

\* the locals of a call are its own
OwnFrame(frames, t) == frames[t]

\* a call that goes on waiting for the transport after it has raised
AfterTransportError_waits(error) == "inflight"

\* a call ends with the transport's exception: nothing is sent again
AfterTransportError(error) == "done"

(***************************************************************************)
(* Actions.                                                                *)
(***************************************************************************)
\* a caller calls one of the endpoint methods `names` with arguments of `args`
InvokeOf(t, names, args) ==
    /\ pc[t] = "idle"
    /\ \E name \in names, a \in args :
           call' = [call EXCEPT ![t] = [name |-> name, d |-> EndpointCall(name, a)]]
    /\ pc' = [pc EXCEPT ![t] = "called"]
    /\ UNCHANGED <<client, now, frame, wire, sends, logged, resp, fault, outcome>>

\* a caller calls an endpoint method
Invoke(t) == InvokeOf(t, EndpointMethods, ArgSets)

\* _send_private_request reads the clock, encodes and signs
Sign(t) ==
    /\ pc[t] = "called"
    /\ call[t].d.private
    /\ LET f == PrivateFrame(client, now, call[t].d) IN
       /\ frame' = [frame EXCEPT ![t] = f]
       /\ IF f.sig.kind = "raise"
          THEN /\ outcome' = [outcome EXCEPT ![t] = f.sig]
               /\ pc' = [pc EXCEPT ![t] = "done"]
          ELSE /\ pc' = [pc EXCEPT ![t] = "signed"]
               /\ UNCHANGED outcome
    /\ UNCHANGED <<client, now, call, wire, sends, logged, resp, fault>>

\* _send_private_request builds the headers, logs and calls session.request
SendPrivate(t) ==
    /\ pc[t] = "signed"
    /\ logged' = [logged EXCEPT ![t] =
           <<"Private API Request: %s %s %s", call[t].d.method, OwnFrame(frame, t).path,
             OwnFrame(frame, t).str_body>>]
    /\ wire' = [wire EXCEPT ![t] = PrivateWire(client, call[t].d, OwnFrame(frame, t))]
    /\ sends' = [sends EXCEPT ![t] = @ + 1]
    /\ pc' = [pc EXCEPT ![t] = "inflight"]
    /\ UNCHANGED <<client, now, call, frame, resp, fault, outcome>>

\* _send_public_request encodes the body, logs and calls session.request
SendPublic(t) ==
    /\ pc[t] = "called"
    /\ ~call[t].d.private
    /\ LET f == PublicFrame(call[t].d) IN
       /\ frame' = [frame EXCEPT ![t] = f]
       /\ logged' = [logged EXCEPT ![t] =
              <<"Public API Request: %s %s %s", call[t].d.method, f.path, f.str_body>>]
       /\ wire' = [wire EXCEPT ![t] = PublicWire(client, call[t].d, f)]
    /\ sends' = [sends EXCEPT ![t] = @ + 1]
    /\ pc' = [pc EXCEPT ![t] = "inflight"]
    /\ UNCHANGED <<client, now, call, resp, fault, outcome>>

\* session.request returns one of `responses` and _handle_response decides the outcome
ReceiveOf(t, responses) ==
    /\ pc[t] = "inflight"
    /\ \E r \in responses :
           /\ resp' = [resp EXCEPT ![t] = r]
           /\ outcome' = [outcome EXCEPT ![t] = _handle_response(r)]
           /\ pc' = [pc EXCEPT ![t] = AfterResponse(_handle_response(r))]
    /\ UNCHANGED <<client, now, call, frame, wire, sends, logged, fault>>

\* session.request returns a response and _handle_response decides the outcome
Receive(t) == ReceiveOf(t, Responses)

\* session.request raises: the exception leaves the call as it is
TransportFail(t) ==
    /\ pc[t] = "inflight"
    /\ \E e \in TransportExceptions :
           /\ fault' = [fault EXCEPT ![t] = e]
           /\ outcome' = [outcome EXCEPT ![t] = TransportOutcome(e)]
           /\ pc' = [pc EXCEPT ![t] = AfterTransportError(e)]
    /\ UNCHANGED <<client, now, call, frame, wire, sends, logged, resp>>

\* a client that forgets its secret when a call fails
ClientAfter_secret_dropped(cl, result) ==
    IF result.kind = "raise" THEN [cl EXCEPT !.api_secret = PyNone] ELSE cl

\* the client after a call ended with `result`: no request path assigns
\* _api_key, _api_secret or _base_url
ClientAfter(cl, result) == cl

\* the call has returned or raised; the caller may call again
Complete(t) ==
    /\ pc[t] = "done"
    /\ pc' = [pc EXCEPT ![t] = "idle"]
    /\ call' = [call EXCEPT ![t] = None]
    /\ frame' = [frame EXCEPT ![t] = None]
    /\ wire' = [wire EXCEPT ![t] = None]
    /\ sends' = [sends EXCEPT ![t] = 0]
    /\ logged' = [logged EXCEPT ![t] = None]
    /\ resp' = [resp EXCEPT ![t] = None]
    /\ fault' = [fault EXCEPT ![t] = None]
    /\ outcome' = [outcome EXCEPT ![t] = NoOutcome]
    /\ client' = ClientAfter(client, outcome[t])
    /\ UNCHANGED now

\* time passes
Tick ==
    /\ now < ClockStart + MaxTicks
    /\ now' = now + 1
    /\ UNCHANGED <<client, pc, call, frame, wire, sends, logged, resp, fault, outcome>>

\* one caller at a time: the client is used synchronously
Callers == {"t1"}

Next ==
    \/ \E t \in Callers : Invoke(t) /\ UNCHANGED <<times, loggers, history>>
    \/ \E t \in Callers : Sign(t) /\ UNCHANGED <<times, loggers, history>>
    \/ \E t \in Callers : SendPrivate(t) /\ UNCHANGED <<times, loggers, history>>
    \/ \E t \in Callers : SendPublic(t) /\ UNCHANGED <<times, loggers, history>>
    \/ \E t \in Callers : Receive(t) /\ UNCHANGED <<times, loggers, history>>
    \/ \E t \in Callers : TransportFail(t) /\ UNCHANGED <<times, loggers, history>>
    \/ \E t \in Callers : Complete(t) /\ UNCHANGED <<times, loggers, history>>
    \/ Tick /\ UNCHANGED <<times, loggers, history>>

Spec == Init /\ [][Next]_vars

(***************************************************************************)
(* Vocabulary of the properties.                                           *)
(***************************************************************************)
AuthHeaders == {"X-BTK-APIKEY", "X-BTK-TIMESTAMP", "X-BTK-SIGN"}

\* the call of t has called session.request
HasSent(t) == pc[t] \in {"inflight", "done"} /\ wire[t] # None

\* the call of t goes through _send_private_request
IsPrivate(t) == call[t] # None /\ call[t].d.private

\* the call of t has ended after a response was received
Answered(t) == pc[t] = "done" /\ resp[t] # None

Is2xx(r) == r.status_code >= 200 /\ r.status_code <= 299

\* sub occurs in s
Contains(s, sub) ==
    \E n \in 1..(Len(s) - Len(sub) + 1) : SubSeq(s, n, n + Len(sub) - 1) = sub

ConfigurationError == Raise(BitkubException("API secret not set"))

SecretUnset == client.api_secret \in {PyNone, PyStr("")}

(***************************************************************************)
(* C1: on every private-request path, with api_secret None or "", the call *)
(* raises BitkubException("API secret not set") and session.request has    *)
(* not been called when it is raised (nor at any other moment of the call).*)
(***************************************************************************)
C1_MissingSecretGuard ==
    \A t \in Threads :
        (IsPrivate(t) /\ SecretUnset) =>
            /\ sends[t] = 0
            /\ wire[t] = None
            /\ pc[t] \in {"called", "done"}
            /\ (pc[t] = "done" => outcome[t] = ConfigurationError)

C1_Witness ==
    \E t \in Threads :
        /\ pc[t] = "done"
        /\ IsPrivate(t)
        /\ call[t].name \in CryptoV4Methods
        /\ client.api_secret = PyNone
        /\ outcome[t] = ConfigurationError
        /\ sends[t] = 0

(***************************************************************************)
(* C2: the signed string of a private request is ts, method, path (with    *)
(* "?" and the URL-encoded query when the query is non-empty) and the      *)
(* JSON body, concatenated in this order with no separator, and X-BTK-SIGN *)
(* is its HMAC-SHA256 under api_secret.                                    *)
(***************************************************************************)
C2_SignedString(t) ==
    frame[t].ts
    \o call[t].d.method
    \o (IF Len(call[t].d.query_params.kv) > 0
        THEN call[t].d.path \o "?" \o urlencode(call[t].d.query_params)
        ELSE call[t].d.path)
    \o json_dumps(call[t].d.body)

C2_SignatureInput ==
    \A t \in Threads :
        (IsPrivate(t) /\ HasSent(t)) =>
            /\ frame[t].sig = Return(HmacSha256Hex(client.api_secret.s, C2_SignedString(t)))
            /\ wire[t].headers["X-BTK-SIGN"] =
                   HmacSha256Hex(client.api_secret.s, C2_SignedString(t))

C2_Witness ==
    \E t \in Threads :
        /\ IsPrivate(t) /\ HasSent(t)
        /\ call[t].name = "fetch_order_history"
        /\ Len(call[t].d.query_params.kv) = 5
        /\ wire[t].headers["X-BTK-SIGN"] =
               HmacSha256Hex("api-secret",
                   frame[t].ts \o "GET"
                   \o "/api/v3/market/my-order-history?sym=THB_BTC&p=1&lmt=10&start=5&end=5"
                   \o "{}")

(***************************************************************************)
(* C3: the timestamp inside the signed payload of a private request and    *)
(* the X-BTK-TIMESTAMP header of that request are the same string, however *)
(* the clock moves during the call.                                        *)
(***************************************************************************)
C3_SameTimestamp ==
    \A t \in Threads :
        (IsPrivate(t) /\ HasSent(t)) =>
            /\ wire[t].headers["X-BTK-TIMESTAMP"] = frame[t].payload[1]
            /\ frame[t].sig.value =
                   HmacSha256Hex(client.api_secret.s,
                       wire[t].headers["X-BTK-TIMESTAMP"] \o frame[t].payload[2]
                       \o frame[t].payload[3] \o frame[t].payload[4])

C3_Witness ==
    \E t \in Threads :
        /\ IsPrivate(t) /\ HasSent(t)
        /\ wire[t].headers["X-BTK-TIMESTAMP"] = frame[t].payload[1]
        /\ wire[t].headers["X-BTK-TIMESTAMP"] # Timestamp(now)

(***************************************************************************)
(* C4: what a private request signs is what it transmits: the URL is the   *)
(* base URL followed by the signed path-with-query, the data is the signed *)
(* body string, and no query is handed to the session beside the URL.  A   *)
(* private GET with query {sym: "THB_BTC"} transmits and signs             *)
(* sym=THB_BTC.                                                            *)
(***************************************************************************)
C4_SignedIsTransmitted ==
    \A t \in Threads :
        (IsPrivate(t) /\ HasSent(t)) =>
            /\ wire[t].url = client.base_url \o frame[t].payload[3]
            /\ wire[t].data = frame[t].payload[4]
            /\ wire[t].params = PyNone
            /\ frame[t].payload[3] =
                   (IF Len(call[t].d.query_params.kv) > 0
                    THEN call[t].d.path \o "?" \o urlencode(call[t].d.query_params)
                    ELSE call[t].d.path)
            /\ (call[t].d.method = GET
                /\ call[t].d.query_params = Dict1("sym", PyStr("THB_BTC"))) =>
                   /\ wire[t].url = client.base_url \o call[t].d.path \o "?sym=THB_BTC"
                   /\ frame[t].payload[3] = call[t].d.path \o "?sym=THB_BTC"

C4_Witness ==
    \E t \in Threads :
        /\ IsPrivate(t) /\ HasSent(t)
        /\ call[t].name = "fetch_open_orders"
        /\ wire[t].url = "https://api.bitkub.com/api/v3/market/my-open-orders?sym=THB_BTC"
        /\ frame[t].payload[3] = "/api/v3/market/my-open-orders?sym=THB_BTC"

(***************************************************************************)
(* C5: the headers of a private call are exactly Accept, Content-Type,     *)
(* X-BTK-TIMESTAMP, X-BTK-SIGN and X-BTK-APIKEY, with Accept and           *)
(* Content-Type "application/json" and the timestamp and signature that    *)
(* were passed in; the headers of a public call are exactly Accept and     *)
(* Content-Type.                                                           *)
(***************************************************************************)
C5_HeaderSets ==
    \A t \in Threads :
        HasSent(t) =>
            /\ wire[t].headers["Accept"] = "application/json"
            /\ wire[t].headers["Content-Type"] = "application/json"
            /\ IF call[t].d.private
               THEN /\ DOMAIN wire[t].headers = {"Accept", "Content-Type"} \cup AuthHeaders
                    /\ wire[t].headers["X-BTK-TIMESTAMP"] = frame[t].ts
                    /\ wire[t].headers["X-BTK-SIGN"] = frame[t].sig.value
               ELSE DOMAIN wire[t].headers = {"Accept", "Content-Type"}

C5_Witness ==
    \E t \in Threads :
        /\ HasSent(t)
        /\ call[t].d.private
        /\ Cardinality(DOMAIN wire[t].headers) = 5
        /\ wire[t].headers["X-BTK-APIKEY"] = "api-key"

(***************************************************************************)
(* C6: the ten public endpoint methods send none of the authentication     *)
(* headers, with or without credentials, and never fail for lack of        *)
(* credentials; the v3 private and v4 crypto methods send all three.       *)
(***************************************************************************)
C6_AuthIffPrivate ==
    \A t \in Threads :
        call[t] # None =>
            /\ call[t].name \in PublicMethods =>
                   /\ HasSent(t) => DOMAIN wire[t].headers \cap AuthHeaders = {}
                   /\ pc[t] \in {"inflight", "done"} => sends[t] = 1
                   /\ outcome[t] # ConfigurationError
            /\ call[t].name \in PrivateV3Methods \cup CryptoV4Methods =>
                   /\ HasSent(t) => AuthHeaders \subseteq DOMAIN wire[t].headers
                   /\ pc[t] \in {"inflight", "done"} /\ ~SecretUnset => sends[t] = 1

C6_Witness ==
    \E t \in Threads :
        /\ pc[t] = "done"
        /\ call[t].name \in PublicMethods
        /\ SecretUnset
        /\ HasSent(t)
        /\ outcome[t].kind = "return"

(***************************************************************************)
(* C7: after a 2xx response whose body parses as JSON, the call raises the *)
(* API error if and only if the parsed value is a mapping with an `error`  *)
(* field whose value is a non-zero integer; in every other case it returns *)
(* the parsed value.                                                       *)
(***************************************************************************)
NonZeroIntegerError(data) ==
    /\ data.t = "dict"
    /\ DictHas(data, "error")
    /\ DictGet(data, "error", PyNone).t = "int"
    /\ DictGet(data, "error", PyNone).i # 0

C7_ApiErrorIffNonZeroInteger ==
    \A t \in Threads :
        (Answered(t) /\ Is2xx(resp[t]) /\ JsonLoads(resp[t].text) # InvalidJson) =>
            IF NonZeroIntegerError(JsonLoads(resp[t].text))
            THEN /\ outcome[t].kind = "raise"
                 /\ outcome[t].error.exc = "BitkubAPIException"
            ELSE outcome[t] = Return(JsonLoads(resp[t].text))

(***************************************************************************)
(* C8: a response with a status below 200 or of at least 300 makes the     *)
(* call raise BitkubException with a message that contains the status code *)
(* and the raw response text; for a status in 200..299 the status check    *)
(* raises nothing.  Status 400 with body "Invalid API key" on fetch_wallet *)
(* gives a message containing "400" and "Invalid API key".                 *)
(***************************************************************************)
C8_StatusCheck ==
    \A t \in Threads :
        Answered(t) =>
            /\ ~Is2xx(resp[t]) =>
                   /\ outcome[t].kind = "raise"
                   /\ outcome[t].error.exc = "BitkubException"
                   /\ Contains(outcome[t].error.message, IntToStr(resp[t].status_code))
                   /\ Contains(outcome[t].error.message, resp[t].text)
            /\ Is2xx(resp[t]) =>
                   /\ _guard_errors(resp[t]) = NoOutcome
                   /\ (outcome[t].kind = "raise" /\ outcome[t].error.exc = "BitkubException")
                          => outcome[t].error.message = "Invalid JSON response"
            /\ (call[t].name = "fetch_wallet" /\ resp[t].status_code = 400
                /\ resp[t].text = "Invalid API key") =>
                   /\ Contains(outcome[t].error.message, "400")
                   /\ Contains(outcome[t].error.message, "Invalid API key")

C8_Witness ==
    \E t \in Threads :
        /\ Answered(t)
        /\ call[t].name = "fetch_wallet"
        /\ resp[t] = [status_code |-> 400, text |-> "Invalid API key"]
        /\ outcome[t] = Raise(BitkubException("400 : Invalid API key"))

(***************************************************************************)
(* C9: the response checks run in the order status code, JSON validity,    *)
(* in-band error code, and the first that fails decides: a non-2xx         *)
(* response raises the status error whatever its body is, the API error is *)
(* raised only for a 2xx response with valid JSON, and "Invalid JSON       *)
(* response" only for a 2xx response.                                      *)
(***************************************************************************)
C9_CheckOrder ==
    \A t \in Threads :
        Answered(t) =>
            /\ ~Is2xx(resp[t]) =>
                   outcome[t] = Raise(BitkubException(
                       IntToStr(resp[t].status_code) \o " : " \o resp[t].text))
            /\ (outcome[t].kind = "raise" /\ outcome[t].error.exc = "BitkubAPIException") =>
                   Is2xx(resp[t]) /\ JsonLoads(resp[t].text) # InvalidJson
            /\ outcome[t] = Raise(BitkubException("Invalid JSON response")) =>
                   Is2xx(resp[t]) /\ JsonLoads(resp[t].text) = InvalidJson
            /\ (Is2xx(resp[t]) /\ JsonLoads(resp[t].text) = InvalidJson) =>
                   outcome[t] = Raise(BitkubException("Invalid JSON response"))

C9_Witness ==
    \E t \in Threads :
        /\ Answered(t)
        /\ resp[t] = [status_code |-> 300, text |-> "{\"error\": 5}"]
        /\ outcome[t] = Raise(BitkubException("300 : {\"error\": 5}"))

(***************************************************************************)
(* C10: a public or private call calls session.request at most once,       *)
(* whatever its outcome: no outcome causes a second attempt.               *)
(***************************************************************************)
C10_SingleAttempt ==
    \A t \in Threads :
        /\ sends[t] <= 1
        /\ (pc[t] = "done" /\ outcome[t] # ConfigurationError) => sends[t] = 1

C10_Witness ==
    \E t \in Threads :
        /\ pc[t] = "done"
        /\ outcome[t].kind = "raise"
        /\ outcome[t].error.exc = "requests.exceptions.Timeout"
        /\ sends[t] = 1

(***************************************************************************)
(* C11: when session.request itself raises (timeout, connection error)     *)
(* during a public or a private call, the call raises that very exception: *)
(* it is neither BitkubException nor BitkubAPIException, and no response   *)
(* is handled.                                                             *)
(***************************************************************************)
TransportFailed(t) == pc[t] = "done" /\ fault[t] # None

C11_TransportErrorUnchanged ==
    \A t \in Threads :
        /\ TransportFailed(t) =>
               /\ fault[t] \in TransportExceptions
               /\ outcome[t] = Raise(fault[t])
               /\ outcome[t].error.exc \notin {"BitkubException", "BitkubAPIException"}
               /\ resp[t] = None
               /\ sends[t] = 1
        /\ (pc[t] = "done" /\ outcome[t].kind = "raise"
            /\ outcome[t].error \in TransportExceptions) => fault[t] = outcome[t].error

C11_Witness ==
    \E t \in Threads :
        /\ TransportFailed(t)
        /\ ~call[t].d.private
        /\ fault[t].exc = "requests.exceptions.ConnectionError"
        /\ outcome[t] = Raise([exc |-> "requests.exceptions.ConnectionError",
                               message |-> "Connection failed"])

(***************************************************************************)
(* C12: the failure conditions and the kind (exception class) of the error *)
(* value each one raises.                                                  *)
(***************************************************************************)
FailureConditions == {"configuration", "transport", "request", "api"}

\* which failure condition a finished call met
FailureCondition(t) ==
    CASE fault[t] # None -> "transport"
      [] fault[t] = None /\ resp[t] # None
         /\ (~Is2xx(resp[t]) \/ JsonLoads(resp[t].text) = InvalidJson) -> "request"
      [] fault[t] = None /\ resp[t] # None
         /\ Is2xx(resp[t]) /\ JsonLoads(resp[t].text) # InvalidJson
         /\ IsApiError(JsonLoads(resp[t].text)) -> "api"
      [] fault[t] = None /\ resp[t] = None
         /\ IsPrivate(t) /\ SecretUnset /\ sends[t] = 0 -> "configuration"
      [] OTHER -> "none"

\* the exception classes the code raises for a failure condition
KindsOf(c) ==
    CASE c = "configuration" ->
             {_sign(cl, "").error.exc : cl \in {k \in ClientConfigs : ~Truthy(k.api_secret)}}
      [] c = "transport" ->
             {TransportOutcome(e).error.exc : e \in TransportExceptions}
      [] c = "request" ->
             {_handle_response(r).error.exc :
                 r \in {x \in Responses : ~Is2xx(x) \/ JsonLoads(x.text) = InvalidJson}}
      [] c = "api" ->
             {_handle_response(r).error.exc :
                 r \in {x \in Responses : /\ Is2xx(x)
                                          /\ JsonLoads(x.text) # InvalidJson
                                          /\ IsApiError(JsonLoads(x.text))}}

\* C12 as stated: each of the four failure conditions raises an error whose
\* kind no other failure condition raises.
C12_FourDistinctKinds ==
    \A t \in Threads :
        (pc[t] = "done" /\ FailureCondition(t) # "none") =>
            /\ outcome[t].kind = "raise"
            /\ \A c \in FailureConditions \ {FailureCondition(t)} :
                   outcome[t].error.exc \notin KindsOf(c)

\* C12 amended: the four failure conditions raise three kinds of error. A
\* transport failure raises the transport's exception, an in-band error
\* raises BitkubAPIException, and both the missing secret and the request
\* error raise BitkubException, which only the message tells apart.
C12_ThreeKinds ==
    \A t \in Threads :
        pc[t] = "done" =>
            LET c == FailureCondition(t) IN
            /\ (c = "none") <=> (outcome[t].kind = "return")
            /\ c = "configuration" =>
                   /\ outcome[t] = Raise(BitkubException("API secret not set"))
                   /\ KindsOf("request") = {outcome[t].error.exc}
                   /\ outcome[t].error.exc \notin KindsOf("api") \cup KindsOf("transport")
            /\ c = "request" =>
                   /\ outcome[t].error.exc = "BitkubException"
                   /\ outcome[t].error.message # "API secret not set"
                   /\ \/ outcome[t].error.message = "Invalid JSON response"
                      \/ Contains(outcome[t].error.message,
                                  IntToStr(resp[t].status_code) \o " : ")
            /\ c = "api" => outcome[t].error.exc = "BitkubAPIException"
            /\ c = "transport" =>
                   outcome[t].error.exc \in {"requests.exceptions.Timeout",
                                             "requests.exceptions.ConnectionError"}

C12_Witness ==
    \E t \in Threads :
        /\ pc[t] = "done"
        /\ FailureCondition(t) = "configuration"
        /\ outcome[t].error.exc = "BitkubException"
        /\ outcome[t].error.exc \in KindsOf("request")

(***************************************************************************)
(* C13: a raised BitkubAPIException carries as its code the value of the   *)
(* response's `error` field and as its message the response's `message`    *)
(* field when there is one, otherwise "API Error <code>".                  *)
(***************************************************************************)
ApiErrorRaised(t) ==
    Answered(t) /\ outcome[t].kind = "raise" /\ outcome[t].error.exc = "BitkubAPIException"

C13_ApiErrorCodeAndMessage ==
    \A t \in Threads :
        ApiErrorRaised(t) =>
            LET data == JsonLoads(resp[t].text) IN
            /\ data.t = "dict" /\ DictHas(data, "error")
            /\ outcome[t].error.code = DictGet(data, "error", PyNone)
            /\ DictHas(data, "message") =>
                   outcome[t].error.message = DictGet(data, "message", PyNone)
            /\ ~DictHas(data, "message") =>
                   outcome[t].error.message =
                       PyStr("API Error " \o StrOf(outcome[t].error.code))
            /\ resp[t].text = "{\"error\": 1, \"message\": \"Invalid API key\"}" =>
                   /\ outcome[t].error.code = PyInt(1)
                   /\ outcome[t].error.message = PyStr("Invalid API key")
            /\ resp[t].text = "{\"error\": 5}" =>
                   /\ outcome[t].error.code = PyInt(5)
                   /\ outcome[t].error.message = PyStr("API Error 5")

C13_Witness ==
    \E t \in Threads :
        /\ ApiErrorRaised(t)
        /\ resp[t] = [status_code |-> 200, text |-> "{\"error\": 5}"]
        /\ outcome[t].error.message = PyStr("API Error 5")
        /\ outcome[t].error.code = PyInt(5)

(***************************************************************************)
(* C14: on a 2xx response with valid JSON and no in-band error the call    *)
(* returns the parsed JSON value itself, be it a mapping, a list or a      *)
(* scalar: nothing is wrapped into or taken out of an {error, result}      *)
(* envelope.                                                               *)
(***************************************************************************)
Succeeded(t) ==
    /\ Answered(t)
    /\ Is2xx(resp[t])
    /\ JsonLoads(resp[t].text) # InvalidJson
    /\ ~IsApiError(JsonLoads(resp[t].text))

C14_ParsedValueAsIs ==
    \A t \in Threads :
        /\ Succeeded(t) => outcome[t] = Return(JsonLoads(resp[t].text))
        /\ (pc[t] = "done" /\ outcome[t].kind = "return") => Succeeded(t)
        /\ (Succeeded(t) /\ resp[t].text = "{\"error\": 0, \"result\": 1}") =>
               outcome[t].value =
                   PyDict(<< <<"error", PyInt(0)>>, <<"result", PyInt(1)>> >>)
        /\ (Succeeded(t) /\ resp[t].text = "[{\"status\": \"ok\"}]") =>
               outcome[t].value = PyList(<< PyDict(<< <<"status", PyStr("ok")>> >>) >>)
        /\ (Succeeded(t) /\ resp[t].text = "1529999999") =>
               outcome[t].value = PyInt(1529999999)

C14_Witness ==
    \E t \in Threads :
        /\ Succeeded(t)
        /\ resp[t] = [status_code |-> 299, text |-> "{\"error\": 0, \"result\": 1}"]
        /\ outcome[t].kind = "return"
        /\ DictHas(outcome[t].value, "error") /\ DictHas(outcome[t].value, "result")

(***************************************************************************)
(* C15: the request body as it is transmitted and signed.                  *)
(***************************************************************************)
\* one character of a JSON text read by a scanner that is outside a string
\* literal ("out"), inside one ("in"), after a backslash inside one ("esc")
\* or just after a "," or ":" between tokens ("sep"); "bad" once whitespace
\* is met where spaced = FALSE forbids it or spaced = TRUE does not put it
JsonScanStep(st, ch, spaced) ==
    CASE st = "in"  -> IF ch = "\\" THEN "esc" ELSE IF ch = "\"" THEN "out" ELSE "in"
      [] st = "esc" -> "in"
      [] st = "sep" -> IF ch = " " THEN "out" ELSE "bad"
      [] st = "out" -> IF ch = "\"" THEN "in"
                       ELSE IF ch \in {" ", "\t", "\n", "\r"} THEN "bad"
                       ELSE IF spaced /\ ch \in {",", ":"} THEN "sep"
                       ELSE "out"
      [] OTHER      -> "bad"

\* the scanner's state after the text s, read by halves
RECURSIVE JsonScan(_, _, _)
JsonScan(s, st, spaced) ==
    IF st = "bad" \/ Len(s) = 0 THEN st
    ELSE IF Len(s) = 1 THEN JsonScanStep(st, s, spaced)
    ELSE LET h == Len(s) \div 2
         IN  JsonScan(SubSeq(s, h + 1, Len(s)),
                      JsonScan(SubSeq(s, 1, h), st, spaced), spaced)

\* a JSON text has a whitespace character outside its string literals
WhitespaceBetweenTokens(s, in_string) ==
    JsonScan(s, IF in_string THEN "in" ELSE "out", FALSE) = "bad"

\* outside string literals every "," and ":" of a JSON text is followed by
\* exactly one space, and no other whitespace occurs
OneSpaceAfterSeparators(s, in_string) ==
    JsonScan(s, IF in_string THEN "in" ELSE "out", TRUE) = "out"

\* the transmitted body is the string the signature was computed over
SignedBodyIsSent(t) ==
    IsPrivate(t) =>
        /\ frame[t].str_body = wire[t].data
        /\ frame[t].payload[4] = wire[t].data
        /\ wire[t].headers["X-BTK-SIGN"] = _sign(client, Join(frame[t].payload)).value

\* C15 as stated: every transmitted body is compact JSON, "{}" for a call
\* without payload and otherwise a serialization with no whitespace between
\* tokens, and that string is the one in the signed payload.
C15_CompactJson ==
    \A t \in Threads :
        HasSent(t) =>
            /\ call[t].d.body = EmptyDict => wire[t].data = "{}"
            /\ ~WhitespaceBetweenTokens(wire[t].data, FALSE)
            /\ SignedBodyIsSent(t)

\* C15 amended: every transmitted body is json.dumps of the body with its
\* default separators, "{}" for a call without payload and otherwise one
\* space after every "," and ":" between tokens, and that string is the one
\* in the signed payload.
C15_DefaultSeparators ==
    \A t \in Threads :
        HasSent(t) =>
            /\ call[t].d.body = EmptyDict <=> wire[t].data = "{}"
            /\ OneSpaceAfterSeparators(wire[t].data, FALSE)
            /\ SignedBodyIsSent(t)
            /\ call[t].name = "withdraw_fiat" =>
                   wire[t].data = "{\"amt\": 100, \"id\": \"7262109099\"}"

C15_Witness ==
    \E t \in Threads :
        /\ HasSent(t)
        /\ call[t].name = "withdraw_fiat"
        /\ wire[t].data = "{\"amt\": 100, \"id\": \"7262109099\"}"
        /\ WhitespaceBetweenTokens(wire[t].data, FALSE)
        /\ frame[t].payload[4] = wire[t].data

(***************************************************************************)
(* C16: a client whose api_key is "" or None and whose api_secret is set   *)
(* completes private calls without the configuration error, and the        *)
(* request carries the header X-BTK-APIKEY with the empty string as its    *)
(* value; when api_key is set the header's value is the api_key.           *)
(***************************************************************************)
KeyUnset == client.api_key \in {PyNone, PyStr("")}

C16_EmptyKeyHeader ==
    \A t \in Threads :
        (IsPrivate(t) /\ ~SecretUnset) =>
            /\ pc[t] = "done" => (outcome[t] # ConfigurationError /\ sends[t] = 1)
            /\ HasSent(t) =>
                   /\ "X-BTK-APIKEY" \in DOMAIN wire[t].headers
                   /\ KeyUnset => wire[t].headers["X-BTK-APIKEY"] = ""
                   /\ ~KeyUnset => wire[t].headers["X-BTK-APIKEY"] = client.api_key.s
                   /\ client.api_key = PyStr("api-key") =>
                          wire[t].headers["X-BTK-APIKEY"] = "api-key"

C16_Witness ==
    \E t \in Threads :
        /\ IsPrivate(t)
        /\ client.api_key = PyNone
        /\ client.api_secret = PyStr("api-secret")
        /\ Succeeded(t)
        /\ wire[t].headers["X-BTK-APIKEY"] = ""

(***************************************************************************)
(* C17: the timestamp of a private call and the clock.  SpecClock records  *)
(* in `times`, for every call, the clock (in half-milliseconds) when the   *)
(* call started, when _send_private_request read it and when the request   *)
(* was handed to session.request.                                          *)
(***************************************************************************)
ClockMethods == {"fetch_wallet", "fetch_open_orders", "fetch_status"}
ClockArgs ==
    {a \in ArgSets : /\ a.symbol \in {PyNone, PyStr("THB_BTC")}
                     /\ a.page = PyNone /\ a.limit = PyNone
                     /\ a.start_time = PyNone /\ a.end_time = PyNone}
ClockResponses ==
    {[status_code |-> 200, text |-> "{\"error\": 0, \"result\": 1}"],
     [status_code |-> 400, text |-> "Invalid API key"]}

InvokeTimed(t) ==
    /\ InvokeOf(t, ClockMethods, ClockArgs)
    /\ times' = [times EXCEPT ![t] = [started |-> now, read |-> -1, sent |-> -1]]

SignTimed(t) ==
    /\ Sign(t)
    /\ times' = [times EXCEPT ![t].read = now]

SendPrivateTimed(t) ==
    /\ SendPrivate(t)
    /\ times' = [times EXCEPT ![t].sent = now]

SendPublicTimed(t) ==
    /\ SendPublic(t)
    /\ times' = [times EXCEPT ![t].sent = now]

ReceiveTimed(t) ==
    /\ ReceiveOf(t, ClockResponses)
    /\ UNCHANGED times

TransportFailTimed(t) ==
    /\ TransportFail(t)
    /\ UNCHANGED times

CompleteTimed(t) ==
    /\ Complete(t)
    /\ times' = [times EXCEPT ![t] = None]

TickTimed ==
    /\ Tick
    /\ UNCHANGED times

NextClock ==
    \/ \E t \in Callers : InvokeTimed(t) /\ UNCHANGED <<loggers, history>>
    \/ \E t \in Callers : SignTimed(t) /\ UNCHANGED <<loggers, history>>
    \/ \E t \in Callers : SendPrivateTimed(t) /\ UNCHANGED <<loggers, history>>
    \/ \E t \in Callers : SendPublicTimed(t) /\ UNCHANGED <<loggers, history>>
    \/ \E t \in Callers : ReceiveTimed(t) /\ UNCHANGED <<loggers, history>>
    \/ \E t \in Callers : TransportFailTimed(t) /\ UNCHANGED <<loggers, history>>
    \/ \E t \in Callers : CompleteTimed(t) /\ UNCHANGED <<loggers, history>>
    \/ TickTimed /\ UNCHANGED <<loggers, history>>

SpecClock == Init /\ [][NextClock]_vars

\* int(s) of a decimal string
DigitValue(ch) == CHOOSE d \in 0..9 : Digits[d + 1] = ch
RECURSIVE StrToNatFrom(_, _)
StrToNatFrom(s, acc) ==
    IF s = "" THEN acc ELSE StrToNatFrom(Tail(s), acc * 10 + DigitValue(Head(s)))
StrToNat(s) == StrToNatFrom(s, 0)

\* a private call whose request was sent, with its times
Timed(t) == IsPrivate(t) /\ HasSent(t) /\ times[t] # None

\* the call uses one timestamp, a decimal string, in the header and the payload
OneDecimalTimestamp(t) ==
    LET ts == wire[t].headers["X-BTK-TIMESTAMP"] IN
    /\ NatToStr(StrToNat(ts)) = ts
    /\ ts = frame[t].ts
    /\ ts = frame[t].payload[1]

\* C17 as stated: every private call reads the clock once, at its start, uses
\* the decimal string of milliseconds as its timestamp and reuses no earlier
\* value, so that the timestamp lies between the time the call started and
\* the time its request was sent.
C17_TimestampBetweenStartAndSend ==
    \A t \in Threads :
        Timed(t) =>
            LET ms == StrToNat(wire[t].headers["X-BTK-TIMESTAMP"]) IN
            /\ OneDecimalTimestamp(t)
            /\ times[t].started <= 2 * ms
            /\ 2 * ms <= times[t].sent

\* C17 amended: every private call reads the clock once, between its start
\* and its send, and its timestamp is that reading rounded to the nearest
\* millisecond as a decimal string; no earlier value is reused.  The
\* timestamp is therefore within half a millisecond of the reading, and can
\* be up to half a millisecond before the start or after the send.
C17_TimestampWithinHalfMillisecond ==
    \A t \in Threads :
        Timed(t) =>
            LET ms == StrToNat(wire[t].headers["X-BTK-TIMESTAMP"]) IN
            /\ OneDecimalTimestamp(t)
            /\ times[t].started <= times[t].read
            /\ times[t].read <= times[t].sent
            /\ times[t].read - 1 <= 2 * ms
            /\ 2 * ms <= times[t].read + 1
            /\ times[t].read % 2 = 0 => 2 * ms = times[t].read
            /\ times[t].started - 1 <= 2 * ms
            /\ 2 * ms <= times[t].sent + 1

C17_Witness ==
    \E t \in Threads :
        /\ Timed(t)
        /\ times[t].started < times[t].read
        /\ times[t].sent < 2 * StrToNat(wire[t].headers["X-BTK-TIMESTAMP"])

(***************************************************************************)
(* C20: private calls running concurrently on one client.  In              *)
(* SpecConcurrent every caller of Threads takes the steps of SpecClock,    *)
(* interleaved in every order.  Each transmitted private request carries   *)
(* the X-BTK-TIMESTAMP and X-BTK-SIGN computed from its own call's clock   *)
(* reading, method, path with query and body, never from another call's.   *)
(***************************************************************************)
NextConcurrent ==
    \/ \E t \in Threads : InvokeTimed(t) /\ UNCHANGED <<loggers, history>>
    \/ \E t \in Threads : SignTimed(t) /\ UNCHANGED <<loggers, history>>
    \/ \E t \in Threads : SendPrivateTimed(t) /\ UNCHANGED <<loggers, history>>
    \/ \E t \in Threads : SendPublicTimed(t) /\ UNCHANGED <<loggers, history>>
    \/ \E t \in Threads : ReceiveTimed(t) /\ UNCHANGED <<loggers, history>>
    \/ \E t \in Threads : TransportFailTimed(t) /\ UNCHANGED <<loggers, history>>
    \/ \E t \in Threads : CompleteTimed(t) /\ UNCHANGED <<loggers, history>>
    \/ TickTimed /\ UNCHANGED <<loggers, history>>

SpecConcurrent == Init /\ [][NextConcurrent]_vars

\* the timestamp and the signature of the call of t, from that call alone
OwnTimestamp(t) == IntToStr(RoundHalf(times[t].read))
OwnSignature(t) ==
    HmacSha256Hex(client.api_secret.s,
                  OwnTimestamp(t) \o call[t].d.method
                  \o PathWithQuery(call[t].d.path, call[t].d.query_params)
                  \o json_dumps(call[t].d.body))

C20_OwnTimestampAndSignature ==
    \A t \in Threads :
        Timed(t) =>
            /\ wire[t].headers["X-BTK-TIMESTAMP"] = OwnTimestamp(t)
            /\ wire[t].headers["X-BTK-SIGN"] = OwnSignature(t)
            /\ wire[t].method = call[t].d.method
            /\ wire[t].url = client.base_url
                             \o PathWithQuery(call[t].d.path, call[t].d.query_params)
            /\ wire[t].data = json_dumps(call[t].d.body)

C20_Witness ==
    \E t, u \in Threads :
        /\ t # u
        /\ Timed(t) /\ Timed(u)
        /\ pc[t] = "inflight" /\ pc[u] = "inflight"
        /\ times[t].started < times[u].read /\ times[u].read < times[t].sent
        /\ call[t].name # call[u].name
        /\ wire[t].headers["X-BTK-TIMESTAMP"] # wire[u].headers["X-BTK-TIMESTAMP"]
        /\ wire[t].headers["X-BTK-SIGN"] # wire[u].headers["X-BTK-SIGN"]

(***************************************************************************)
(* HMAC-SHA256 as hmac.new(key, msg, hashlib.sha256).hexdigest() computes  *)
(* it (client.py 45-49), on bytes as numbers and 32-bit words as pairs of  *)
(* 16-bit halves.  HmacSha256Hex stands for this string wherever only the  *)
(* equality of signatures matters.                                         *)
(***************************************************************************)
\* the printable ASCII characters: codes 32 to 95, and 97 to 126
PrintableTo95 == " !\"#$%&'()*+,-./0123456789:;<=>?@ABCDEFGHIJKLMNOPQRSTUVWXYZ[\\]^_"
PrintableFrom97 == "abcdefghijklmnopqrstuvwxyz{|}~"

\* ord(ch)
Ord(ch) ==
    IF \E i \in 1..Len(PrintableTo95) : SubSeq(PrintableTo95, i, i) = ch
    THEN 31 + (CHOOSE i \in 1..Len(PrintableTo95) : SubSeq(PrintableTo95, i, i) = ch)
    ELSE 96 + (CHOOSE i \in 1..Len(PrintableFrom97) : SubSeq(PrintableFrom97, i, i) = ch)

\* s.encode()
RECURSIVE Encode(_)
Encode(s) == IF s = "" THEN <<>> ELSE <<Ord(Head(s))>> \o Encode(Tail(s))

\* 2 ** n for n up to 16
Pow2(n) == <<1, 2, 4, 8, 16, 32, 64, 128, 256, 512, 1024, 2048, 4096, 8192,
             16384, 32768, 65536>>[n + 1]

\* a ^ b ^ c, (e & f) ^ (~e & g) and (a & b) ^ (a & c) ^ (b & c) of two-bit
\* numbers, as tables indexed from 1
XOR3_OF_2_BITS ==
    <<<<<<0, 1, 2, 3>>, <<1, 0, 3, 2>>, <<2, 3, 0, 1>>, <<3, 2, 1, 0>>>>,
      <<<<1, 0, 3, 2>>, <<0, 1, 2, 3>>, <<3, 2, 1, 0>>, <<2, 3, 0, 1>>>>,
      <<<<2, 3, 0, 1>>, <<3, 2, 1, 0>>, <<0, 1, 2, 3>>, <<1, 0, 3, 2>>>>,
      <<<<3, 2, 1, 0>>, <<2, 3, 0, 1>>, <<1, 0, 3, 2>>, <<0, 1, 2, 3>>>>>>
CH_OF_2_BITS ==
    <<<<<<0, 1, 2, 3>>, <<0, 1, 2, 3>>, <<0, 1, 2, 3>>, <<0, 1, 2, 3>>>>,
      <<<<0, 0, 2, 2>>, <<1, 1, 3, 3>>, <<0, 0, 2, 2>>, <<1, 1, 3, 3>>>>,
      <<<<0, 1, 0, 1>>, <<0, 1, 0, 1>>, <<2, 3, 2, 3>>, <<2, 3, 2, 3>>>>,
      <<<<0, 0, 0, 0>>, <<1, 1, 1, 1>>, <<2, 2, 2, 2>>, <<3, 3, 3, 3>>>>>>
MAJ_OF_2_BITS ==
    <<<<<<0, 0, 0, 0>>, <<0, 1, 0, 1>>, <<0, 0, 2, 2>>, <<0, 1, 2, 3>>>>,
      <<<<0, 1, 0, 1>>, <<1, 1, 1, 1>>, <<0, 1, 2, 3>>, <<1, 1, 3, 3>>>>,
      <<<<0, 0, 2, 2>>, <<0, 1, 2, 3>>, <<2, 2, 2, 2>>, <<2, 3, 2, 3>>>>,
      <<<<0, 1, 2, 3>>, <<1, 1, 3, 3>>, <<2, 3, 2, 3>>, <<3, 3, 3, 3>>>>>>

\* the same operations on naturals, two bits at a time
RECURSIVE Xor3(_, _, _)
Xor3(a, b, c) ==
    IF a = 0 /\ b = 0 /\ c = 0 THEN 0
    ELSE XOR3_OF_2_BITS[(a % 4) + 1][(b % 4) + 1][(c % 4) + 1]
         + 4 * Xor3(a \div 4, b \div 4, c \div 4)

RECURSIVE Ch(_, _, _)
Ch(e, f, g) ==
    IF f = 0 /\ g = 0 THEN 0
    ELSE CH_OF_2_BITS[(e % 4) + 1][(f % 4) + 1][(g % 4) + 1]
         + 4 * Ch(e \div 4, f \div 4, g \div 4)

RECURSIVE Maj(_, _, _)
Maj(a, b, c) ==
    IF a + b + c = 0 THEN 0
    ELSE MAJ_OF_2_BITS[(a % 4) + 1][(b % 4) + 1][(c % 4) + 1]
         + 4 * Maj(a \div 4, b \div 4, c \div 4)

\* 32-bit words as <<high 16 bits, low 16 bits>>
WXor3(x, y, z) == <<Xor3(x[1], y[1], z[1]), Xor3(x[2], y[2], z[2])>>
WCh(x, y, z) == <<Ch(x[1], y[1], z[1]), Ch(x[2], y[2], z[2])>>
WMaj(x, y, z) == <<Maj(x[1], y[1], z[1]), Maj(x[2], y[2], z[2])>>
WAdd(x, y) ==
    LET lo == x[2] + y[2]
        hi == x[1] + y[1] + (lo \div 65536)
    IN  <<hi % 65536, lo % 65536>>

RECURSIVE RotR(_, _)
RotR(x, n) ==
    IF n >= 16 THEN RotR(<<x[2], x[1]>>, n - 16)
    ELSE IF n = 0 THEN x
    ELSE LET p == Pow2(n)
             q == Pow2(16 - n)
         IN  <<(x[1] \div p) + (x[2] % p) * q, (x[2] \div p) + (x[1] % p) * q>>

ShR(x, n) ==
    LET p == Pow2(n)
        q == Pow2(16 - n)
    IN  <<x[1] \div p, (x[2] \div p) + (x[1] % p) * q>>

SHA256_K ==
    <<
      <<17034, 12184>>, <<28983, 17553>>, <<46528, 64463>>, <<59829, 56229>>,
      <<14678, 49755>>, <<23025, 4593>>, <<37439, 33444>>, <<43804, 24277>>,
      <<55303, 43672>>, <<4739, 23297>>, <<9265, 34238>>, <<21772, 32195>>,
      <<29374, 23924>>, <<32990, 45566>>, <<39900, 1703>>, <<49563, 61812>>,
      <<58523, 27073>>, <<61374, 18310>>, <<4033, 40390>>, <<9228, 41420>>,
      <<11753, 11375>>, <<19060, 33962>>, <<23728, 43484>>, <<30457, 35034>>,
      <<38974, 20818>>, <<43057, 50797>>, <<45059, 10184>>, <<48985, 32711>>,
      <<50912, 3059>>, <<54695, 37191>>, <<1738, 25425>>, <<5161, 10599>>,
      <<10167, 2693>>, <<11803, 8504>>, <<19756, 28156>>, <<21304, 3347>>,
      <<25866, 29524>>, <<30314, 2747>>, <<33218, 51502>>, <<37490, 11397>>,
      <<41663, 59553>>, <<43034, 26187>>, <<49739, 35696>>, <<51052, 20899>>,
      <<53650, 59417>>, <<54937, 1572>>, <<62478, 13701>>, <<4202, 41072>>,
      <<6564, 49430>>, <<7735, 27656>>, <<10056, 30540>>, <<13488, 48309>>,
      <<14620, 3251>>, <<20184, 43594>>, <<23452, 51791>>, <<26670, 28659>>,
      <<29839, 33518>>, <<30885, 25455>>, <<33992, 30740>>, <<36039, 520>>,
      <<37054, 65530>>, <<42064, 27883>>, <<48889, 41975>>, <<50801, 30962>> >>

SHA256_H0 ==
    <<
      <<27145, 58983>>, <<47975, 44677>>, <<15470, 62322>>, <<42319, 62778>>,
      <<20750, 21119>>, <<39685, 26764>>, <<8067, 55723>>, <<23520, 52505>> >>

\* the message schedule of one block
RECURSIVE Schedule(_)
Schedule(w) ==
    IF Len(w) = 64 THEN w
    ELSE LET j == Len(w) + 1
             s0 == WXor3(RotR(w[j - 15], 7), RotR(w[j - 15], 18), ShR(w[j - 15], 3))
             s1 == WXor3(RotR(w[j - 2], 17), RotR(w[j - 2], 19), ShR(w[j - 2], 10))
         IN  Schedule(Append(w, WAdd(WAdd(w[j - 16], s0), WAdd(w[j - 7], s1))))

\* the 64 rounds on the working variables v = <<a, b, c, d, e, f, g, h>>
\* (Len(v) has them evaluated round by round)
RECURSIVE Rounds(_, _, _)
Rounds(v, w, j) ==
    IF j > 64 \/ Len(v) # 8 THEN v
    ELSE LET S1 == WXor3(RotR(v[5], 6), RotR(v[5], 11), RotR(v[5], 25))
             t1 == WAdd(WAdd(WAdd(v[8], S1), WAdd(WCh(v[5], v[6], v[7]), SHA256_K[j])), w[j])
             S0 == WXor3(RotR(v[1], 2), RotR(v[1], 13), RotR(v[1], 22))
             t2 == WAdd(S0, WMaj(v[1], v[2], v[3]))
         IN  Rounds(<<WAdd(t1, t2), v[1], v[2], v[3], WAdd(v[4], t1), v[5], v[6], v[7]>>,
                    w, j + 1)

\* 64 bytes as 16 big-endian words
BlockWords(bytes) ==
    [i \in 1..16 |-> <<bytes[4 * i - 3] * 256 + bytes[4 * i - 2],
                       bytes[4 * i - 1] * 256 + bytes[4 * i]>>]

Compress(h, block) ==
    LET v == Rounds(h, Schedule(BlockWords(block)), 1)
    IN  [i \in 1..8 |-> WAdd(h[i], v[i])]

RECURSIVE Zeros(_)
Zeros(n) == IF n = 0 THEN <<>> ELSE <<0>> \o Zeros(n - 1)

\* the padding of a message of n bytes: 0x80, zeros, the bit length in 8 bytes
Padding(n) ==
    LET bits == 8 * n IN
    <<128>> \o Zeros((119 - (n % 64)) % 64)
    \o <<0, 0, 0, 0, (bits \div 16777216) % 256, (bits \div 65536) % 256,
         (bits \div 256) % 256, bits % 256>>

RECURSIVE Blocks(_, _)
Blocks(h, bytes) ==
    IF Len(bytes) = 0 THEN h
    ELSE Blocks(Compress(h, SubSeq(bytes, 1, 64)), SubSeq(bytes, 65, Len(bytes)))

RECURSIVE WordBytes(_)
WordBytes(h) ==
    IF Len(h) = 0 THEN <<>>
    ELSE <<h[1][1] \div 256, h[1][1] % 256, h[1][2] \div 256, h[1][2] % 256>>
         \o WordBytes(Tail(h))

\* hashlib.sha256(bytes).digest()
Sha256(bytes) == WordBytes(Blocks(SHA256_H0, bytes \o Padding(Len(bytes))))

\* hmac.new(key, msg, hashlib.sha256).digest(), for keys of at most 64 bytes
HmacSha256(key, msg) ==
    LET k == key \o Zeros(64 - Len(key))
        ipad == [i \in 1..64 |-> Xor3(k[i], 54, 0)]
        opad == [i \in 1..64 |-> Xor3(k[i], 92, 0)]
    IN  Sha256(opad \o Sha256(ipad \o msg))

HexDigits == "0123456789abcdef"

\* hexadecimal digits in capitals
HexDigit_upper(n) == SubSeq("0123456789ABCDEF", n + 1, n + 1)

HexDigit(n) == SubSeq(HexDigits, n + 1, n + 1)

\* bytes.hex()
RECURSIVE Hex(_)
Hex(bytes) ==
    IF Len(bytes) = 0 THEN ""
    ELSE HexDigit(bytes[1] \div 16) \o HexDigit(bytes[1] % 16) \o Hex(Tail(bytes))

\* a digest that takes in the clock as well
hmac_sha256_hexdigest_timed(key, msg) ==
    Hex(HmacSha256(Encode(key), Encode(msg \o IntToStr(now))))

\* hmac.new(key.encode(), msg.encode(), hashlib.sha256).hexdigest()
hmac_sha256_hexdigest(key, msg) == Hex(HmacSha256(Encode(key), Encode(msg)))

\* BaseClient._sign with the digest computed
_sign_digest(cl, payload_string) ==
    IF _sign(cl, payload_string).kind = "raise"
    THEN _sign(cl, payload_string)
    ELSE Return(hmac_sha256_hexdigest(cl.api_secret.s, payload_string))

(***************************************************************************)
(* SpecSign: callers call _sign directly, as test_sign_method does, on a   *)
(* client with a secret, with payloads that include the empty one, at      *)
(* different times.                                                        *)
(***************************************************************************)
SignClients ==
    {[api_key |-> PyStr("api-key"), api_secret |-> PyStr("api-secret"),
      base_url |-> "https://api.bitkub.com"],
     [api_key |-> PyNone, api_secret |-> PyStr("api-secret"),
      base_url |-> "https://api.bitkub.com"],
     [api_key |-> PyStr("api-key"), api_secret |-> PyStr("s3cret"),
      base_url |-> "https://api.bitkub.com"]}
SignPayloads == {"", "1700POST/api/v3/market/wallet{}"}

InitSign == InitOf(SignClients)

CallSign(t) ==
    /\ pc[t] = "idle"
    /\ \E p \in SignPayloads :
           /\ call' = [call EXCEPT ![t] = [name |-> "_sign", payload |-> p, at |-> now]]
           /\ outcome' = [outcome EXCEPT ![t] = _sign_digest(client, p)]
    /\ pc' = [pc EXCEPT ![t] = "done"]
    /\ UNCHANGED <<client, now, frame, wire, sends, logged, resp, fault, times>>

\* time passes between calls of _sign
TickSign ==
    /\ now < ClockStart + MaxSignTicks
    /\ now' = now + 1
    /\ UNCHANGED <<client, pc, call, frame, wire, sends, logged, resp, fault, outcome, times>>

NextSign ==
    \/ \E t \in Threads : CallSign(t) /\ UNCHANGED <<loggers, history>>
    \/ \E t \in Threads : Complete(t) /\ UNCHANGED <<times, loggers, history>>
    \/ TickSign /\ UNCHANGED <<loggers, history>>

SpecSign == InitSign /\ [][NextSign]_vars

\* a call of _sign has returned
SignReturned(t) ==
    /\ pc[t] = "done"
    /\ call[t].name = "_sign"
    /\ outcome[t].kind = "return"

(***************************************************************************)
(* C18: signing is deterministic.  Two calls of _sign with the same secret *)
(* and the same payload, the empty payload included, return the same       *)
(* string, whenever they are made and whatever else the client holds: the  *)
(* string is the HMAC-SHA256 of the payload under the secret.              *)
(***************************************************************************)
C18_SignDeterministic ==
    \A t \in Threads :
        (pc[t] = "done" /\ call[t].name = "_sign") =>
            /\ SignReturned(t)
            /\ \A u \in Threads :
                   (SignReturned(u) /\ call[u].payload = call[t].payload) =>
                       outcome[u].value = outcome[t].value
            /\ (client.api_secret = PyStr("api-secret") /\ call[t].payload = "") =>
                   outcome[t].value =
                       "6738bbe2a223c23d2bafbb4177aeaf8c090dad6b04c77f67678766e7d54920b1"
            /\ (client.api_secret = PyStr("api-secret") /\ call[t].payload # "") =>
                   outcome[t].value =
                       "c97f4d8a437847a6996c68827d50eb36e03d08a0bd89e94e8f672ac8c64534ca"
            /\ (client.api_secret = PyStr("s3cret") /\ call[t].payload = "") =>
                   outcome[t].value =
                       "91dfac70c5348b04e1babb8b421ac92cec08b565b49ca16130dccb72503647b7"
            /\ (client.api_secret = PyStr("s3cret") /\ call[t].payload # "") =>
                   outcome[t].value =
                       "e1d1621289c629b261e1b71ba1d7d4f55596cebe3b1fa41c4b3b541c1ce1b886"

C18_Witness ==
    \E t, u \in Threads :
        /\ t # u
        /\ SignReturned(t) /\ SignReturned(u)
        /\ call[t].payload = "" /\ call[u].payload = ""
        /\ call[t].at < call[u].at
        /\ client.api_key = PyNone
        /\ outcome[t].value = outcome[u].value

(***************************************************************************)
(* C19: for a non-empty secret and any payload the string _sign returns    *)
(* has exactly 64 characters, each one of 0-9 or a-f.                      *)
(***************************************************************************)
LowercaseHex ==
    {"0", "1", "2", "3", "4", "5", "6", "7", "8", "9", "a", "b", "c", "d", "e", "f"}

C19_Signature64LowercaseHex ==
    \A t \in Threads :
        (pc[t] = "done" /\ call[t].name = "_sign") =>
            /\ SignReturned(t)
            /\ Len(outcome[t].value) = 64
            /\ \A i \in 1..Len(outcome[t].value) :
                   SubSeq(outcome[t].value, i, i) \in LowercaseHex

C19_Witness ==
    \E t \in Threads :
        /\ SignReturned(t)
        /\ client.api_secret = PyStr("s3cret")
        /\ call[t].payload = "1700POST/api/v3/market/wallet{}"
        /\ Len(outcome[t].value) = 64
        /\ \E i \in 1..64 : SubSeq(outcome[t].value, i, i) \in {"a", "b", "c", "d", "e", "f"}

(***************************************************************************)
(* C21: the client across a sequence of calls.  SpecCalls takes the steps  *)
(* of SpecClock and records in `history` the client as it was made and,    *)
(* when a call ends, what it returned or raised.                           *)
(***************************************************************************)
CompleteRecorded(t) ==
    /\ CompleteTimed(t)
    /\ history' = [history EXCEPT !.last[t] = outcome[t]]

NextCalls ==
    \/ \E t \in Callers : InvokeTimed(t) /\ UNCHANGED <<loggers, history>>
    \/ \E t \in Callers : SignTimed(t) /\ UNCHANGED <<loggers, history>>
    \/ \E t \in Callers : SendPrivateTimed(t) /\ UNCHANGED <<loggers, history>>
    \/ \E t \in Callers : SendPublicTimed(t) /\ UNCHANGED <<loggers, history>>
    \/ \E t \in Callers : ReceiveTimed(t) /\ UNCHANGED <<loggers, history>>
    \/ \E t \in Callers : TransportFailTimed(t) /\ UNCHANGED <<loggers, history>>
    \/ \E t \in Callers : CompleteRecorded(t) /\ UNCHANGED loggers
    \/ TickTimed /\ UNCHANGED <<loggers, history>>

SpecCalls == Init /\ [][NextCalls]_vars

\* between two calls nothing of the last call is left with the caller
NothingLeft(t) ==
    /\ call[t] = None /\ frame[t] = None /\ wire[t] = None /\ sends[t] = 0
    /\ logged[t] = None /\ resp[t] = None /\ fault[t] = None
    /\ outcome[t] = NoOutcome

\* the call of t does what a call on the client as it was made does, with the
\* same arguments, clock reading and answer of the transport
AsOnFreshClient(t) ==
    LET made == history.made
        d == call[t].d
    IN  /\ Timed(t) =>
               wire[t] = PrivateWire(made, d, PrivateFrame(made, times[t].read, d))
        /\ (HasSent(t) /\ ~IsPrivate(t)) => wire[t] = PublicWire(made, d, PublicFrame(d))
        /\ Answered(t) => outcome[t] = _handle_response(resp[t])
        /\ TransportFailed(t) => outcome[t] = Raise(fault[t])
        /\ (pc[t] = "done" /\ ~HasSent(t)) =>
               /\ d.private
               /\ made.api_secret \in {PyNone, PyStr("")}
               /\ outcome[t] = ConfigurationError

\* C21: no request operation, public or private, succeeding or failing with
\* any error kind, changes api_key, api_secret or base_url: in every state
\* they are the values given at construction, and after a call that failed
\* the caller holds nothing of it and its later calls send and return what
\* they would on the client as it was made.
C21_ClientUnchanged ==
    /\ client = history.made
    /\ \A t \in Callers :
           /\ pc[t] = "idle" => NothingLeft(t)
           /\ pc[t] # "idle" => AsOnFreshClient(t)

C21_Witness ==
    \E t \in Callers :
        /\ history.last[t].kind = "raise"
        /\ history.last[t].error.exc = "BitkubException"
        /\ IsPrivate(t) /\ Answered(t)
        /\ outcome[t].kind = "return"
        /\ client.api_secret = PyStr("api-secret")

(***************************************************************************)
(* C22: the logger of a client.  In SpecLoggers callers make further       *)
(* clients in the process of the first one, with any logging level.        *)
(* logging.getLogger("bitkub") is the one logger of that name for every    *)
(* client, so a client's logger is known by its name.                      *)
(***************************************************************************)
LoggingLevels == {DEBUG, INFO, ERROR}

\* BaseClient.__init__ (client.py 31-37) with logging_level = level
Construct(t) ==
    /\ pc[t] = "idle"
    /\ loggers["bitkub"].handlers < MaxHandlers
    /\ \E level \in LoggingLevels :
           /\ call' = [call EXCEPT ![t] = [name |-> "Client", logging_level |-> level]]
           /\ loggers' = [loggers EXCEPT !["bitkub"] =
                              [level |-> level, handlers |-> @.handlers + 1]]
    /\ outcome' = [outcome EXCEPT ![t] = Return([logger |-> "bitkub"])]
    /\ pc' = [pc EXCEPT ![t] = "done"]
    /\ UNCHANGED <<client, now, frame, wire, sends, logged, resp, fault, times, history>>

NextLoggers ==
    \/ \E t \in Threads : Construct(t)
    \/ \E t \in Threads : Complete(t) /\ UNCHANGED <<times, loggers, history>>

SpecLoggers == Init /\ [][NextLoggers]_vars

\* the caller t holds a client it has made
HoldsClient(t) == pc[t] = "done" /\ call[t].name = "Client"

\* C22: for every client, the level of client.logger equals the
\* logging_level that was passed to that client's constructor, in every state
\* reachable by constructing further clients with other logging levels.
C22_LevelAsConstructed ==
    /\ loggers["bitkub"].level = LoggingLevelOf(client)
    /\ \A t \in Threads :
           HoldsClient(t) =>
               loggers[outcome[t].value.logger].level = call[t].logging_level

(***************************************************************************)
(* bitkub/validators.py and bitkub/enums.py: the validators that normalize *)
(* a string.  A member of OrderType or OrderSide is a str (the enums mix   *)
(* in str) that carries the name of its enum.                              *)
(***************************************************************************)
OrderTypeValues == {"limit", "market"}
OrderSideValues == {"buy", "sell"}
OrderTypeMember(s) == [t |-> "OrderType", s |-> s]
OrderSideMember(s) == [t |-> "OrderSide", s |-> s]

\* isinstance(v, str)
IsStr(v) == v.t \in {"str", "OrderType", "OrderSide"}

Whitespace == {" ", "\t", "\n", "\r"}
UpperLetters == "ABCDEFGHIJKLMNOPQRSTUVWXYZ"
LowerLetters == "abcdefghijklmnopqrstuvwxyz"
DigitChars == "0123456789"

\* the character of `to` at the place ch has in `from`, ch itself if it has none
MapChar(ch, from, to) ==
    IF \E n \in 1..Len(from) : SubSeq(from, n, n) = ch
    THEN LET n == CHOOSE n \in 1..Len(from) : SubSeq(from, n, n) = ch
         IN  SubSeq(to, n, n)
    ELSE ch

\* a string character by character, by halves
RECURSIVE MapStr(_, _, _)
MapStr(s, from, to) ==
    IF Len(s) = 0 THEN ""
    ELSE IF Len(s) = 1 THEN MapChar(s, from, to)
    ELSE LET h == Len(s) \div 2
         IN  MapStr(SubSeq(s, 1, h), from, to) \o MapStr(SubSeq(s, h + 1, Len(s)), from, to)

\* str.upper and str.lower
Upper(s) == MapStr(s, LowerLetters, UpperLetters)
Lower(s) == MapStr(s, UpperLetters, LowerLetters)

\* str.strip
Strip(s) ==
    LET kept == {n \in 1..Len(s) : SubSeq(s, n, n) \notin Whitespace}
    IN  IF kept = {} THEN ""
        ELSE SubSeq(s, CHOOSE n \in kept : \A m \in kept : n <= m,
                       CHOOSE n \in kept : \A m \in kept : m <= n)

\* the places of the character ch in s
PlacesOf(ch, s) == {n \in 1..Len(s) : SubSeq(s, n, n) = ch}

\* str.split(sep) for a separator of one character
RECURSIVE Split(_, _)
Split(s, sep) ==
    IF PlacesOf(sep, s) = {} THEN <<s>>
    ELSE LET n == CHOOSE n \in PlacesOf(sep, s) : \A m \in PlacesOf(sep, s) : n <= m
         IN  <<SubSeq(s, 1, n - 1)>> \o Split(SubSeq(s, n + 1, Len(s)), sep)

\* re.match(r"^[chars]{lo,hi}$", s): "$" also matches before a final newline
MatchesClass(s, chars, lo, hi) ==
    LET core == IF Len(s) > 0 /\ SubSeq(s, Len(s), Len(s)) = "\n"
                THEN SubSeq(s, 1, Len(s) - 1) ELSE s
        fits(x) == /\ Len(x) >= lo /\ Len(x) <= hi
                   /\ \A n \in 1..Len(x) : PlacesOf(SubSeq(x, n, n), chars) # {}
    IN  fits(s) \/ fits(core)

\* validate_symbol that does not count the parts of the split
validate_symbol_any_parts(symbol) ==
    IF symbol = PyNone THEN Return(PyNone)
    ELSE IF ~IsStr(symbol) THEN Raise(BitkubException("Symbol must be a string"))
    ELSE LET s == Upper(Strip(symbol.s)) IN
         IF s = "" THEN Return(PyNone)
         ELSE IF PlacesOf("_", s) = {}
         THEN Raise(BitkubException("Symbol must be in format 'BASE_QUOTE' (e.g., 'THB_BTC')"))
         ELSE Return(PyStr(s))

\* validators.validate_symbol
validate_symbol(symbol) ==
    IF symbol = PyNone THEN Return(PyNone)
    ELSE IF ~IsStr(symbol) THEN Raise(BitkubException("Symbol must be a string"))
    ELSE LET s == Upper(Strip(symbol.s))
             parts == Split(s, "_")
         IN
         IF s = "" THEN Return(PyNone)
         ELSE IF PlacesOf("_", s) = {}
         THEN Raise(BitkubException("Symbol must be in format 'BASE_QUOTE' (e.g., 'THB_BTC')"))
         ELSE IF Len(parts) # 2
         THEN Raise(BitkubException("Symbol must have exactly one underscore"))
         ELSE IF parts[1] = "" \/ parts[2] = ""
         THEN Raise(BitkubException("Both base and quote currencies must be non-empty"))
         ELSE Return(PyStr(s))

\* validators.validate_order_type
validate_order_type(order_type) ==
    IF order_type.t = "OrderType" THEN Return(PyStr(order_type.s))
    ELSE IF ~IsStr(order_type)
    THEN Raise(BitkubException("Order type must be a string or OrderType enum"))
    ELSE LET s == Strip(Lower(order_type.s)) IN
         IF s \in OrderTypeValues THEN Return(PyStr(s))
         ELSE Raise(BitkubException(
                  "Invalid order type. Must be one of: ['limit', 'market']"))

\* validators.validate_order_side
validate_order_side(side) ==
    IF side.t = "OrderSide" THEN Return(PyStr(side.s))
    ELSE IF ~IsStr(side)
    THEN Raise(BitkubException("Order side must be a string or OrderSide enum"))
    ELSE LET s == Strip(Lower(side.s)) IN
         IF s \in OrderSideValues THEN Return(PyStr(s))
         ELSE Raise(BitkubException("Invalid order side. Must be one of: ['buy', 'sell']"))

\* validators.validate_address
validate_address(address) ==
    IF ~IsStr(address) THEN Raise(BitkubException("Address must be a string"))
    ELSE LET s == Strip(address.s) IN
         IF s = "" THEN Raise(BitkubException("Address cannot be empty"))
         ELSE IF ~MatchesClass(s, LowerLetters \o UpperLetters \o DigitChars, 1, Len(s))
         THEN Raise(BitkubException("Address contains invalid characters"))
         ELSE IF Len(s) < 26 \/ Len(s) > 62
         THEN Raise(BitkubException("Address length appears to be invalid"))
         ELSE Return(PyStr(s))

\* validators.validate_currency
validate_currency(currency) ==
    IF ~IsStr(currency) THEN Raise(BitkubException("Currency must be a string"))
    ELSE LET s == Strip(Upper(currency.s)) IN
         IF s = "" THEN Raise(BitkubException("Currency cannot be empty"))
         ELSE IF ~MatchesClass(s, UpperLetters, 2, 5)
         THEN Raise(BitkubException("Invalid currency format"))
         ELSE Return(PyStr(s))

\* validators.validate_network
validate_network(network) ==
    IF ~IsStr(network) THEN Raise(BitkubException("Network must be a string"))
    ELSE LET s == Strip(Upper(network.s)) IN
         IF s = "" THEN Raise(BitkubException("Network cannot be empty"))
         ELSE Return(PyStr(s))

\* validators.validate_client_id
validate_client_id(client_id) ==
    IF client_id = PyNone \/ (IsStr(client_id) /\ client_id.s = "") THEN Return(PyNone)
    ELSE IF ~IsStr(client_id) THEN Raise(BitkubException("Client ID must be a string"))
    ELSE LET s == Strip(client_id.s) IN
         IF Len(s) > 100 THEN Raise(BitkubException("Client ID is too long"))
         ELSE Return(PyStr(s))

\* the validators that normalize a string
NormalizingValidators ==
    {"validate_symbol", "validate_currency", "validate_network", "validate_address",
     "validate_order_type", "validate_order_side", "validate_client_id"}

Validate(name, v) ==
    CASE name = "validate_symbol" -> validate_symbol(v)
      [] name = "validate_currency" -> validate_currency(v)
      [] name = "validate_network" -> validate_network(v)
      [] name = "validate_address" -> validate_address(v)
      [] name = "validate_order_type" -> validate_order_type(v)
      [] name = "validate_order_side" -> validate_order_side(v)
      [] name = "validate_client_id" -> validate_client_id(v)

(***************************************************************************)
(* SpecValidators: callers apply a validator to an input and, when it      *)
(* returned, apply the same validator to the value it returned.            *)
(***************************************************************************)
InputStrings ==
    {"", " ", " \t\n", "THB_BTC", " thb_btc\n", "thb", "a_b_c", "a__b", "_btc", "thb_",
     "_", " _ ", "t hb_bt c", "limit", " Market ", "stop", "BUY", "sell ", "hold",
     "btc", " usdt\r", "bitcoin", "b1", "erc-20",
     "3BtxdKw6XSbneNvmJTLVHS9XfNYM7VAe8k", " 3BtxdKw6XSbneNvmJTLVHS9XfNYM7VAe8k ",
     "3Btx dKw6XSbneNvmJTLVHS9XfNYM7VAe8k", "abc123", "  order-001  ",
     "aaaaaaaaaaaaaaaaaaaaaaaaaaaaaaaaaaaaaaaaaaaaaaaaaaaaaaaaaaaaaaaaaaaaaaaaaaaaaaaaaaaaaaaaaaaaaaaaaaaaa"}

ValidatorInputs ==
    {PyNone, PyInt(123), OrderTypeMember("limit"), OrderTypeMember("market"),
     OrderSideMember("buy"), OrderSideMember("sell")}
    \cup {PyStr(s) : s \in InputStrings}

CallValidator(t) ==
    /\ pc[t] = "idle"
    /\ \E name \in NormalizingValidators, v \in ValidatorInputs :
           /\ call' = [call EXCEPT ![t] = [name |-> name, arg |-> v, applied |-> 1,
                                           first |-> NoOutcome]]
           /\ outcome' = [outcome EXCEPT ![t] = Validate(name, v)]
    /\ pc' = [pc EXCEPT ![t] = "done"]
    /\ UNCHANGED <<client, now, frame, wire, sends, logged, resp, fault, times,
                   loggers, history>>

\* the validator is applied to the value it returned
ApplyAgain(t) ==
    /\ pc[t] = "done"
    /\ call[t].applied = 1
    /\ outcome[t].kind = "return"
    /\ call' = [call EXCEPT ![t] = [name |-> call[t].name, arg |-> outcome[t].value,
                                    applied |-> 2, first |-> outcome[t]]]
    /\ outcome' = [outcome EXCEPT ![t] = Validate(call[t].name, outcome[t].value)]
    /\ UNCHANGED <<client, now, pc, frame, wire, sends, logged, resp, fault, times,
                   loggers, history>>

NextValidators ==
    \/ \E t \in Callers : CallValidator(t)
    \/ \E t \in Callers : ApplyAgain(t)
    \/ \E t \in Callers : Complete(t) /\ UNCHANGED <<times, loggers, history>>

SpecValidators == Init /\ [][NextValidators]_vars

\* a validator was applied to an input by t
Validated(t, name) == pc[t] = "done" /\ call[t].name = name /\ call[t].applied = 1

\* the symbol has one "_", with text before it and after it
OneUnderscoreInside(s) ==
    /\ Cardinality(PlacesOf("_", s)) = 1
    /\ 1 \notin PlacesOf("_", s)
    /\ Len(s) \notin PlacesOf("_", s)

\* C23: validate_symbol returns None for None and for a string that is empty
\* after trimming; for any other string it returns the trimmed, upper-cased
\* symbol exactly when that symbol has exactly one underscore with non-empty
\* text on both sides, and otherwise raises BitkubException; a non-string,
\* non-None input raises BitkubException.
C23_ValidateSymbol ==
    \A t \in Callers :
        Validated(t, "validate_symbol") =>
            LET v == call[t].arg
                s == Upper(Strip(v.s))
                raised == /\ outcome[t].kind = "raise"
                          /\ outcome[t].error.exc = "BitkubException"
            IN  IF v = PyNone THEN outcome[t] = Return(PyNone)
                ELSE IF ~IsStr(v) THEN raised
                ELSE IF Strip(v.s) = "" THEN outcome[t] = Return(PyNone)
                ELSE IF OneUnderscoreInside(s) THEN outcome[t] = Return(PyStr(s))
                ELSE raised

C23_Witness ==
    \E t \in Callers :
        /\ Validated(t, "validate_symbol")
        /\ call[t].arg = PyStr(" thb_btc\n")
        /\ outcome[t] = Return(PyStr("THB_BTC"))

\* the validator was applied by t to the value it had returned
AppliedAgain(t) == pc[t] = "done" /\ call[t].name \in NormalizingValidators /\ call[t].applied = 2

\* C29: each normalizing validator is idempotent: for every input it
\* accepts, applying the same validator to the value it returned raises
\* nothing and returns that same value.
C29_Idempotent ==
    \A t \in Callers :
        AppliedAgain(t) => outcome[t] = call[t].first

(***************************************************************************)
(* bitkub/models.py: the typed responses and their from_dict decoders.  A  *)
(* decoder returns an instance, as a record with the name of its class, or *)
(* raises what dict.get, iteration or float() raise on a value that is not *)
(* of the type they need.                                                  *)
(***************************************************************************)
\* a float with an integral value
PyFloat(x) == [t |-> "float", f |-> x]

\* type(v).__name__
TypeName(v) == IF v.t = "None" THEN "NoneType" ELSE v.t

AttributeError(v, attr) ==
    [exc |-> "AttributeError",
     message |-> "'" \o TypeName(v) \o "' object has no attribute '" \o attr \o "'"]
TypeError(message) == [exc |-> "TypeError", message |-> message]
ValueError(message) == [exc |-> "ValueError", message |-> message]

\* data.get(key, default)
Get(data, key, default) ==
    IF data.t = "dict" THEN Return(DictGet(data, key, default))
    ELSE Raise(AttributeError(data, "get"))

\* float(v), for numbers, None, containers and the strings of decimal digits
FloatOf(v) ==
    CASE v.t = "int" -> Return(PyFloat(v.i))
      [] v.t = "float" -> Return(v)
      [] v.t = "bool" -> Return(PyFloat(IF v.b THEN 1 ELSE 0))
      [] v.t = "str" ->
             IF Strip(v.s) # "" /\ MatchesClass(Strip(v.s), DigitChars, 1, Len(v.s))
             THEN Return(PyFloat(StrToNat(Strip(v.s))))
             ELSE Raise(ValueError("could not convert string to float: '" \o v.s \o "'"))
      [] OTHER ->
             Raise(TypeError("float() argument must be a string or a real number, not '"
                             \o TypeName(v) \o "'"))

\* the items `for item in v` yields
Iterate(v) ==
    CASE v.t = "list" -> Return(v.xs)
      [] v.t = "dict" -> Return([n \in 1..Len(v.kv) |-> PyStr(v.kv[n][1])])
      [] v.t = "str" -> Return([n \in 1..Len(v.s) |-> PyStr(SubSeq(v.s, n, n))])
      [] OTHER -> Raise(TypeError("'" \o TypeName(v) \o "' object is not iterable"))

\* the first outcome of a sequence that is a raise, or NoOutcome
FirstRaise(outcomes) ==
    LET raised == {n \in 1..Len(outcomes) : outcomes[n].kind = "raise"}
    IN  IF raised = {} THEN NoOutcome
        ELSE outcomes[CHOOSE n \in raised : \A m \in raised : n <= m]

\* ServerTimeResponse.from_dict
ServerTimeResponse_from_dict(data) ==
    IF data.t # "dict" THEN Raise(AttributeError(data, "get"))
    ELSE Return([cls |-> "ServerTimeResponse",
                 error |-> DictGet(data, "error", PyInt(0)),
                 result |-> DictGet(data, "result", PyInt(0))])

\* a decoder that reads data["result"]: KeyError when the field is absent
StatusResponse_from_dict_indexed(data) ==
    IF data.t # "dict" THEN Raise(AttributeError(data, "get"))
    ELSE IF ~DictHas(data, "result") THEN Raise([exc |-> "KeyError", message |-> "'result'"])
    ELSE Return([cls |-> "StatusResponse",
                 error |-> DictGet(data, "error", PyInt(0)),
                 result |-> DictGet(data, "result", PyList(<<>>))])

\* StatusResponse.from_dict
StatusResponse_from_dict(data) ==
    IF data.t # "dict" THEN Raise(AttributeError(data, "get"))
    ELSE Return([cls |-> "StatusResponse",
                 error |-> DictGet(data, "error", PyInt(0)),
                 result |-> DictGet(data, "result", PyList(<<>>))])

\* SymbolData.from_dict
SymbolData_from_dict(data) ==
    IF data.t # "dict" THEN Raise(AttributeError(data, "get"))
    ELSE Return([cls |-> "SymbolData",
                 id |-> DictGet(data, "id", PyInt(0)),
                 symbol |-> DictGet(data, "symbol", PyStr("")),
                 info |-> DictGet(data, "info", PyStr(""))])

\* SymbolsResponse.from_dict
SymbolsResponse_from_dict(data) ==
    IF data.t # "dict" THEN Raise(AttributeError(data, "get"))
    ELSE LET items == Iterate(DictGet(data, "result", PyList(<<>>))) IN
         IF items.kind = "raise" THEN items
         ELSE LET symbols == [n \in 1..Len(items.value) |->
                                  SymbolData_from_dict(items.value[n])]
              IN  IF FirstRaise(symbols) # NoOutcome THEN FirstRaise(symbols)
                  ELSE Return([cls |-> "SymbolsResponse",
                               error |-> DictGet(data, "error", PyInt(0)),
                               result |-> [n \in 1..Len(symbols) |-> symbols[n].value]])

\* the fields of TickerData that go through float(), in the order of from_dict
TickerFloats ==
    <<"last", "lowestAsk", "highestBid", "percentChange", "baseVolume", "quoteVolume",
      "high24hr", "low24hr", "change">>

\* TickerData.from_dict
TickerData_from_dict(data) ==
    IF data.t # "dict" THEN Raise(AttributeError(data, "get"))
    ELSE LET floats == [n \in 1..Len(TickerFloats) |->
                            FloatOf(DictGet(data, TickerFloats[n], PyInt(0)))]
         IN  IF FirstRaise(floats) # NoOutcome THEN FirstRaise(floats)
             ELSE Return([cls |-> "TickerData",
                          id |-> DictGet(data, "id", PyInt(0)),
                          last |-> floats[1].value,
                          lowestAsk |-> floats[2].value,
                          highestBid |-> floats[3].value,
                          percentChange |-> floats[4].value,
                          baseVolume |-> floats[5].value,
                          quoteVolume |-> floats[6].value,
                          isFrozen |-> PyBool(Truthy(DictGet(data, "isFrozen", PyBool(FALSE)))),
                          high24hr |-> floats[7].value,
                          low24hr |-> floats[8].value,
                          change |-> floats[9].value])

\* TickerResponse.from_dict
TickerResponse_from_dict(data) ==
    IF data.t # "dict" THEN Raise(AttributeError(data, "get"))
    ELSE LET result_data == DictGet(data, "result", EmptyDict) IN
         IF result_data.t # "dict" THEN Raise(AttributeError(result_data, "items"))
         ELSE LET tickers == [n \in 1..Len(result_data.kv) |->
                                  TickerData_from_dict(result_data.kv[n][2])]
              IN  IF FirstRaise(tickers) # NoOutcome THEN FirstRaise(tickers)
                  ELSE Return([cls |-> "TickerResponse",
                               error |-> DictGet(data, "error", PyInt(0)),
                               result |-> [n \in 1..Len(tickers) |->
                                               <<result_data.kv[n][1], tickers[n].value>>]])

Decoders ==
    {"ServerTimeResponse", "StatusResponse", "SymbolData", "SymbolsResponse",
     "TickerData", "TickerResponse"}

from_dict(cls, data) ==
    CASE cls = "ServerTimeResponse" -> ServerTimeResponse_from_dict(data)
      [] cls = "StatusResponse" -> StatusResponse_from_dict(data)
      [] cls = "SymbolData" -> SymbolData_from_dict(data)
      [] cls = "SymbolsResponse" -> SymbolsResponse_from_dict(data)
      [] cls = "TickerData" -> TickerData_from_dict(data)
      [] cls = "TickerResponse" -> TickerResponse_from_dict(data)

(***************************************************************************)
(* SpecModels: callers hand a mapping to a decoder.                        *)
(***************************************************************************)
BtcTicker ==
    PyDict(<< <<"id", PyInt(1)>>, <<"last", PyInt(100)>>, <<"lowestAsk", PyStr("100")>>,
              <<"isFrozen", PyInt(1)>>, <<"change", PyFloat(5)>> >>)

DecoderInputs ==
    {EmptyDict,
     Dict1("unexpected_field", PyStr("value")),
     Dict1("error", PyInt(5)),
     Dict2("error", PyInt(0), "result", PyInt(1529999999)),
     Dict1("result", PyList(<< Dict2("status", PyStr("ok"), "message", PyStr("")) >>)),
     Dict2("error", PyInt(0), "result",
           PyList(<< PyDict(<< <<"id", PyInt(1)>>, <<"symbol", PyStr("THB_BTC")>>,
                               <<"info", PyStr("Thai Baht to Bitcoin")>> >>),
                     Dict1("id", PyInt(2)) >>)),
     Dict2("error", PyInt(0), "result", Dict2("THB_BTC", BtcTicker, "THB_ETH", EmptyDict)),
     Dict1("result", PyList(<<>>)),
     Dict1("result", EmptyDict),
     Dict2("id", PyInt(5), "symbol", PyStr("THB_DOGE")),
     Dict1("info", PyStr("Thai Baht to Dogecoin")),
     BtcTicker,
     Dict2("isFrozen", PyBool(FALSE), "high24hr", PyInt(7)),
     Dict1("last", PyNone),
     Dict1("change", PyStr("abc")),
     Dict1("result", PyNone),
     Dict1("result", PyList(<< PyInt(5) >>)),
     Dict1("result", Dict1("THB_BTC", Dict1("last", PyNone)))}

Decode(t) ==
    /\ pc[t] = "idle"
    /\ \E cls \in Decoders, data \in DecoderInputs :
           /\ call' = [call EXCEPT ![t] = [name |-> "from_dict", cls |-> cls, data |-> data]]
           /\ outcome' = [outcome EXCEPT ![t] = from_dict(cls, data)]
    /\ pc' = [pc EXCEPT ![t] = "done"]
    /\ UNCHANGED <<client, now, frame, wire, sends, logged, resp, fault, times,
                   loggers, history>>

NextModels ==
    \/ \E t \in Callers : Decode(t)
    \/ \E t \in Callers : Complete(t) /\ UNCHANGED <<times, loggers, history>>

SpecModels == Init /\ [][NextModels]_vars

\* a decoder was applied by t
Decoded(t) == pc[t] = "done" /\ call[t].name = "from_dict"

\* the field of the mapping when it is present, the default when it is absent
PresentOr(data, key, default) ==
    IF DictHas(data, key) THEN DictGet(data, key, PyNone) ELSE default

\* the number a value stands for: a number, a bool or a string of digits
IsNumber(v) ==
    \/ v.t \in {"int", "float", "bool"}
    \/ v.t = "str" /\ Strip(v.s) # "" /\ \A n \in 1..Len(Strip(v.s)) :
                          SubSeq(Strip(v.s), n, n) \in {Digits[d] : d \in 1..10}
NumberOf(v) ==
    CASE v.t = "int" -> v.i
      [] v.t = "float" -> v.f
      [] v.t = "bool" -> IF v.b THEN 1 ELSE 0
      [] v.t = "str" -> StrToNat(Strip(v.s))

\* every field of the mapping that is present holds what the decoder can take
PresentFieldsFit(cls, data) ==
    LET ticker(d) == /\ d.t = "dict"
                     /\ \A n \in 1..Len(TickerFloats) :
                            DictHas(d, TickerFloats[n]) =>
                                IsNumber(DictGet(d, TickerFloats[n], PyNone))
        result == DictGet(data, "result", PyNone)
    IN  CASE cls = "SymbolsResponse" ->
                 DictHas(data, "result") =>
                     /\ result.t = "list"
                     /\ \A n \in 1..Len(result.xs) : result.xs[n].t = "dict"
          [] cls = "TickerData" -> ticker(data)
          [] cls = "TickerResponse" ->
                 DictHas(data, "result") =>
                     /\ result.t = "dict"
                     /\ \A n \in 1..Len(result.kv) : ticker(result.kv[n][2])
          [] OTHER -> TRUE

\* the instance v holds the fields of the mapping, and defaults for the rest
SymbolFields(data, v) ==
    /\ v.id = PresentOr(data, "id", PyInt(0))
    /\ v.symbol = PresentOr(data, "symbol", PyStr(""))
    /\ v.info = PresentOr(data, "info", PyStr(""))

TickerFields(data, v) ==
    /\ v.id = PresentOr(data, "id", PyInt(0))
    /\ v.isFrozen = PyBool(Truthy(PresentOr(data, "isFrozen", PyBool(FALSE))))
    /\ \A n \in 1..Len(TickerFloats) :
           v[TickerFloats[n]] = PyFloat(NumberOf(PresentOr(data, TickerFloats[n], PyInt(0))))

ResponseFields(cls, data, v) ==
    LET result == DictGet(data, "result", PyNone) IN
    /\ v.error = PresentOr(data, "error", PyInt(0))
    /\ CASE cls = "ServerTimeResponse" -> v.result = PresentOr(data, "result", PyInt(0))
         [] cls = "StatusResponse" -> v.result = PresentOr(data, "result", PyList(<<>>))
         [] cls = "SymbolsResponse" ->
                IF DictHas(data, "result")
                THEN /\ Len(v.result) = Len(result.xs)
                     /\ \A n \in 1..Len(result.xs) : SymbolFields(result.xs[n], v.result[n])
                ELSE v.result = <<>>
         [] cls = "TickerResponse" ->
                IF DictHas(data, "result")
                THEN /\ Len(v.result) = Len(result.kv)
                     /\ \A n \in 1..Len(result.kv) :
                            /\ v.result[n][1] = result.kv[n][1]
                            /\ TickerFields(result.kv[n][2], v.result[n][2])
                ELSE v.result = <<>>

\* C24: every typed response decoder accepts any mapping without raising on
\* absent fields: whenever the fields that are present hold what the decoder
\* can take it returns an instance, in which a missing `error` is 0, a
\* missing `result` or element field is that field's default (0, "", False,
\* [] or {}) and the fields that are present are carried through (the ticker
\* numbers as float, isFrozen as bool).
C24_DecodersDefaults ==
    \A t \in Callers :
        Decoded(t) =>
            LET cls == call[t].cls
                data == call[t].data
            IN  PresentFieldsFit(cls, data) =>
                       /\ outcome[t].kind = "return"
                       /\ outcome[t].value.cls = cls
                       /\ CASE cls = "SymbolData" -> SymbolFields(data, outcome[t].value)
                            [] cls = "TickerData" -> TickerFields(data, outcome[t].value)
                            [] OTHER -> ResponseFields(cls, data, outcome[t].value)

C24_Witness ==
    \E t \in Callers :
        /\ Decoded(t)
        /\ call[t].cls = "TickerResponse"
        /\ call[t].data = Dict1("unexpected_field", PyStr("value"))
        /\ outcome[t] = Return([cls |-> "TickerResponse", error |-> PyInt(0), result |-> <<>>])

(***************************************************************************)
(* The typed methods of Client (client.py 191-243): each calls its raw     *)
(* method and hands what it returns to the from_dict of its class.  In     *)
(* SpecTyped callers call the typed methods.                               *)
(***************************************************************************)
TypedMethods ==
    {"fetch_server_time_typed", "fetch_status_typed", "fetch_symbols_typed",
     "fetch_tickers_typed"}

\* the raw method a typed method calls, and the class it decodes to
RawMethod(name) ==
    CASE name = "fetch_server_time_typed" -> "fetch_server_time"
      [] name = "fetch_status_typed" -> "fetch_status"
      [] name = "fetch_symbols_typed" -> "fetch_symbols"
      [] name = "fetch_tickers_typed" -> "fetch_tickers"

TypedClass(name) ==
    CASE name = "fetch_server_time_typed" -> "ServerTimeResponse"
      [] name = "fetch_status_typed" -> "StatusResponse"
      [] name = "fetch_symbols_typed" -> "SymbolsResponse"
      [] name = "fetch_tickers_typed" -> "TickerResponse"

\* what the typed method makes of what its raw method returned or raised
TypedOutcome(name, raw) ==
    IF raw.kind = "return" THEN from_dict(TypedClass(name), raw.value) ELSE raw

\* the answers of the public endpoints
TypedResponses ==
    [status_code : {200, 400},
     text : {"{\"error\": 0, \"result\": 1}", "{\"result\": 1}", "[{\"status\": \"ok\"}]",
             "1529999999", "{\"THB_BTC\": {\"id\": 1, \"last\": 100}}", "Invalid API key"}]

InvokeTyped(t) ==
    /\ pc[t] = "idle"
    /\ \E name \in TypedMethods, a \in ClockArgs :
           call' = [call EXCEPT ![t] = [name |-> name, d |-> EndpointCall(RawMethod(name), a)]]
    /\ pc' = [pc EXCEPT ![t] = "called"]
    /\ UNCHANGED <<client, now, frame, wire, sends, logged, resp, fault, outcome>>

ReceiveTyped(t) ==
    /\ pc[t] = "inflight"
    /\ \E r \in TypedResponses :
           /\ resp' = [resp EXCEPT ![t] = r]
           /\ outcome' = [outcome EXCEPT ![t] = TypedOutcome(call[t].name, _handle_response(r))]
           /\ pc' = [pc EXCEPT ![t] = AfterResponse(_handle_response(r))]
    /\ UNCHANGED <<client, now, call, frame, wire, sends, logged, fault>>

NextTyped ==
    \/ \E t \in Callers : InvokeTyped(t) /\ UNCHANGED <<times, loggers, history>>
    \/ \E t \in Callers : SendPublic(t) /\ UNCHANGED <<times, loggers, history>>
    \/ \E t \in Callers : ReceiveTyped(t) /\ UNCHANGED <<times, loggers, history>>
    \/ \E t \in Callers : TransportFail(t) /\ UNCHANGED <<times, loggers, history>>
    \/ \E t \in Callers : Complete(t) /\ UNCHANGED <<times, loggers, history>>
    \/ Tick /\ UNCHANGED <<times, loggers, history>>

SpecTyped == Init /\ [][NextTyped]_vars

\* C28: for every response on which the raw method fetch_status,
\* fetch_server_time, fetch_symbols or fetch_tickers returns a value without
\* raising, the typed method also returns a typed response without raising,
\* a bare list, a bare integer and a ticker mapping without `result` included.
C28_TypedReturnsWhenRawReturns ==
    \A t \in Callers :
        (Answered(t) /\ call[t].name \in TypedMethods) =>
            (_handle_response(resp[t]).kind = "return" => outcome[t].kind = "return")

(***************************************************************************)
(* The entry points Client._send_request (client.py 83-88) and             *)
(* Client._send_api_request (113-130), called with keyword arguments.  In  *)
(* SpecEntry callers call them with every choice of authenticated, body    *)
(* and query_params given, given as None, or omitted.                      *)
(***************************************************************************)
\* kwargs.get(key, default)
KwGet(kwargs, key, default) == DictGet(kwargs, key, default)

\* _send_request whose `authenticated` defaults to False
_send_request_public_default(method, path, kwargs) ==
    _send_api_request(method, path,
                      KwGet(kwargs, "body", EmptyDict),
                      KwGet(kwargs, "query_params", EmptyDict),
                      Truthy(KwGet(kwargs, "authenticated", PyBool(FALSE))))

\* Client._send_request(method, path, **kwargs)
_send_request(method, path, kwargs) ==
    _send_api_request(method, path,
                      KwGet(kwargs, "body", EmptyDict),
                      KwGet(kwargs, "query_params", EmptyDict),
                      Truthy(KwGet(kwargs, "authenticated", PyBool(TRUE))))

\* Client._send_api_request called with keyword arguments: the defaults of
\* its signature are None, None and True
_send_api_request_kw(method, path, kwargs) ==
    _send_api_request(method, path,
                      KwGet(kwargs, "body", PyNone),
                      KwGet(kwargs, "query_params", PyNone),
                      Truthy(KwGet(kwargs, "authenticated", PyBool(TRUE))))

EntryPoints == {"_send_request", "_send_api_request"}

EntryCall(name, method, path, kwargs) ==
    CASE name = "_send_request" -> _send_request(method, path, kwargs)
      [] name = "_send_api_request" -> _send_api_request_kw(method, path, kwargs)

\* the keyword arguments: each of the three given, given as None, or omitted
EntryBody == Dict2("amt", Amount, "id", BankId)
EntryQuery == Dict1("sym", PyStr("THB_BTC"))
EntryKwargs ==
    {SetIf(q # "omitted",
       SetIf(b # "omitted",
         SetIf(a # "omitted", EmptyDict, "authenticated", PyBool(a = "true")),
         "body", IF b = "none" THEN PyNone ELSE EntryBody),
       "query_params", IF q = "none" THEN PyNone ELSE EntryQuery) :
        a \in {"omitted", "true", "false"},
        b \in {"omitted", "none", "given"},
        q \in {"omitted", "none", "given"}}

InvokeEntry(t) ==
    /\ pc[t] = "idle"
    /\ \E name \in EntryPoints, kwargs \in EntryKwargs :
           call' = [call EXCEPT ![t] =
                        [name |-> name, kwargs |-> kwargs,
                         d |-> EntryCall(name, POST, Endpoints.FIAT_WITHDRAW, kwargs)]]
    /\ pc' = [pc EXCEPT ![t] = "called"]
    /\ UNCHANGED <<client, now, frame, wire, sends, logged, resp, fault, outcome>>

NextEntry ==
    \/ \E t \in Callers : InvokeEntry(t) /\ UNCHANGED <<times, loggers, history>>
    \/ \E t \in Callers : Sign(t) /\ UNCHANGED <<times, loggers, history>>
    \/ \E t \in Callers : SendPrivate(t) /\ UNCHANGED <<times, loggers, history>>
    \/ \E t \in Callers : SendPublic(t) /\ UNCHANGED <<times, loggers, history>>
    \/ \E t \in Callers : ReceiveOf(t, ClockResponses) /\ UNCHANGED <<times, loggers, history>>
    \/ \E t \in Callers : TransportFail(t) /\ UNCHANGED <<times, loggers, history>>
    \/ \E t \in Callers : Complete(t) /\ UNCHANGED <<times, loggers, history>>
    \/ Tick /\ UNCHANGED <<times, loggers, history>>

SpecEntry == Init /\ [][NextEntry]_vars

\* the call of t entered through _send_request or _send_api_request
Entered(t) == call[t] # None /\ call[t].name \in EntryPoints

\* the keyword is omitted or None
Unset(kwargs, key) == ~DictHas(kwargs, key) \/ DictGet(kwargs, key, PyNone) = PyNone

\* C25: _send_request and _send_api_request sign by default: with
\* `authenticated` omitted or True the request is sent as a private request
\* (and so fails without a secret), with authenticated=False as a public
\* request with only Accept and Content-Type; an omitted or None body is
\* sent as {} and an omitted or None query as no query, and a private request
\* given both a body and query parameters sends the body as data and the
\* query in the URL.
C25_SignByDefault ==
    \A t \in Callers :
        Entered(t) =>
            LET k == call[t].kwargs
                public == DictHas(k, "authenticated")
                              /\ DictGet(k, "authenticated", PyNone) = PyBool(FALSE)
                path == Endpoints.FIAT_WITHDRAW
            IN  /\ call[t].d.private = ~public
                /\ (~public /\ SecretUnset /\ pc[t] = "done") =>
                       outcome[t] = ConfigurationError /\ sends[t] = 0
                /\ HasSent(t) =>
                       /\ ~public => /\ AuthHeaders \subseteq DOMAIN wire[t].headers
                                     /\ ~SecretUnset
                       /\ public => DOMAIN wire[t].headers = {"Accept", "Content-Type"}
                       /\ wire[t].data = IF Unset(k, "body") THEN "{}"
                                         ELSE "{\"amt\": 100, \"id\": \"7262109099\"}"
                       /\ Unset(k, "query_params") =>
                              /\ wire[t].url = client.base_url \o path
                              /\ wire[t].params \in {PyNone, EmptyDict}
                       /\ (~public /\ ~Unset(k, "query_params")) =>
                              /\ wire[t].url = client.base_url \o path \o "?sym=THB_BTC"
                              /\ wire[t].params = PyNone

C25_Witness ==
    \E t \in Callers :
        /\ Entered(t) /\ HasSent(t)
        /\ call[t].name = "_send_request"
        /\ ~DictHas(call[t].kwargs, "authenticated")
        /\ DictHas(call[t].kwargs, "body") /\ ~Unset(call[t].kwargs, "body")
        /\ ~Unset(call[t].kwargs, "query_params")
        /\ "X-BTK-SIGN" \in DOMAIN wire[t].headers
        /\ wire[t].data = "{\"amt\": 100, \"id\": \"7262109099\"}"
        /\ wire[t].url = "https://api.bitkub.com/api/v3/fiat/withdraw?sym=THB_BTC"

(***************************************************************************)
(* C26: fetch_order_history.  In SpecOrderHistory callers call it with     *)
(* every choice of symbol, page, limit, start_time and end_time, and the   *)
(* call keeps its arguments.                                               *)
(***************************************************************************)
InvokeOrderHistory(t) ==
    /\ pc[t] = "idle"
    /\ \E a \in ArgSets :
           call' = [call EXCEPT ![t] = [name |-> "fetch_order_history", a |-> a,
                                        d |-> EndpointCall("fetch_order_history", a)]]
    /\ pc' = [pc EXCEPT ![t] = "called"]
    /\ UNCHANGED <<client, now, frame, wire, sends, logged, resp, fault, outcome>>

NextOrderHistory ==
    \/ \E t \in Callers : InvokeOrderHistory(t) /\ UNCHANGED <<times, loggers, history>>
    \/ \E t \in Callers : Sign(t) /\ UNCHANGED <<times, loggers, history>>
    \/ \E t \in Callers : SendPrivate(t) /\ UNCHANGED <<times, loggers, history>>
    \/ \E t \in Callers : ReceiveOf(t, ClockResponses) /\ UNCHANGED <<times, loggers, history>>
    \/ \E t \in Callers : TransportFail(t) /\ UNCHANGED <<times, loggers, history>>
    \/ \E t \in Callers : Complete(t) /\ UNCHANGED <<times, loggers, history>>
    \/ Tick /\ UNCHANGED <<times, loggers, history>>

SpecOrderHistory == Init /\ [][NextOrderHistory]_vars

\* "&key=value" when the argument is non-zero and not None, nothing otherwise
QueryPart(key, v) ==
    IF v = PyNone \/ v = PyInt(0) THEN "" ELSE "&" \o key \o "=" \o StrOf(v)

\* the query string of fetch_order_history called with arguments a
OrderHistoryQuery(a) ==
    "sym=" \o StrOf(a.symbol) \o QueryPart("p", a.page) \o QueryPart("lmt", a.limit)
    \o QueryPart("start", a.start_time) \o QueryPart("end", a.end_time)

\* C26: fetch_order_history always sends `sym`; it sends `p`, `lmt`, `start`
\* and `end` exactly when page, limit, start_time and end_time are non-zero
\* and not None, so the defaults give p=1 and lmt=10; the request is a
\* signed GET and the parameters that are sent are the ones that are signed.
C26_OrderHistoryQuery ==
    \A t \in Callers :
        (HasSent(t) /\ call[t].name = "fetch_order_history") =>
            LET path == Endpoints.MARKET_MY_ORDER_HISTORY \o "?" \o OrderHistoryQuery(call[t].a)
            IN  /\ wire[t].method = GET
                /\ wire[t].url = client.base_url \o path
                /\ wire[t].params = PyNone
                /\ frame[t].payload[2] = GET
                /\ frame[t].payload[3] = path
                /\ wire[t].headers["X-BTK-SIGN"] = _sign(client, Join(frame[t].payload)).value
                /\ AuthHeaders \subseteq DOMAIN wire[t].headers

C26_Witness ==
    \E t \in Callers :
        /\ HasSent(t)
        /\ call[t].name = "fetch_order_history"
        /\ call[t].a = [symbol |-> PyStr("THB_BTC"), page |-> PyInt(1), limit |-> PyInt(10),
                        start_time |-> PyNone, end_time |-> PyNone]
        /\ wire[t].url =
               "https://api.bitkub.com/api/v3/market/my-order-history?sym=THB_BTC&p=1&lmt=10"

(***************************************************************************)
(* C27: what the secret reaches.  The request and the log record of a      *)
(* private call are compared with those of the same call, at the same      *)
(* clock reading, on a client that differs in api_secret only.  The value  *)
(* of X-BTK-SIGN is the HMAC-SHA256 digest of the payload under the        *)
(* secret.                                                                 *)
(***************************************************************************)
OtherSecrets == {PyStr("s3cret"), PyStr("k")}

\* the client with another secret, and what the call of t sends and logs on it
WithSecret(s) == [client EXCEPT !.api_secret = s]
WireWithSecret(t, s) ==
    PrivateWire(WithSecret(s), call[t].d,
                PrivateFrame(WithSecret(s), times[t].read, call[t].d))
LoggedWithSecret(t, s) ==
    LET f == PrivateFrame(WithSecret(s), times[t].read, call[t].d)
    IN  <<"Private API Request: %s %s %s", call[t].d.method, f.path, f.str_body>>

\* C27: the secret influences an outgoing private request only through the
\* X-BTK-SIGN header: for two clients that differ only in api_secret (both
\* non-empty) issuing the same call with the same timestamp, the method, URL,
\* body, every header other than X-BTK-SIGN and the logged debug record are
\* identical, and the secret string itself is never placed in a header, the
\* URL, the body or a log record.
C27_SecretOnlyInSignature ==
    \A t \in Callers :
        Timed(t) =>
            LET secret == client.api_secret.s
                others == DOMAIN wire[t].headers \ {"X-BTK-SIGN"}
            IN  /\ \A s \in OtherSecrets :
                       /\ WireWithSecret(t, s).method = wire[t].method
                       /\ WireWithSecret(t, s).url = wire[t].url
                       /\ WireWithSecret(t, s).data = wire[t].data
                       /\ WireWithSecret(t, s).params = wire[t].params
                       /\ DOMAIN WireWithSecret(t, s).headers = DOMAIN wire[t].headers
                       /\ \A h \in others : WireWithSecret(t, s).headers[h] = wire[t].headers[h]
                       /\ LoggedWithSecret(t, s) = logged[t]
                /\ wire[t].headers["X-BTK-SIGN"] =
                       HmacSha256Hex(secret, Join(frame[t].payload))
                /\ \A h \in others : ~Contains(wire[t].headers[h], secret)
                /\ ~Contains(wire[t].url, secret)
                /\ ~Contains(wire[t].data, secret)
                /\ \A n \in 1..Len(logged[t]) : ~Contains(logged[t][n], secret)
                /\ \A n \in 1..Len(frame[t].payload) : ~Contains(frame[t].payload[n], secret)

C27_Witness ==
    \E t \in Callers :
        /\ Timed(t)
        /\ call[t].name = "fetch_open_orders"
        /\ client.api_secret = PyStr("api-secret")
        /\ logged[t] # None
        /\ WireWithSecret(t, PyStr("s3cret")).headers["X-BTK-SIGN"]
               # wire[t].headers["X-BTK-SIGN"]

(***************************************************************************)
(* C30: every call ends, in one of five outcomes.  The client's own steps  *)
(* are straight-line code (client.py 132-169 has no loop and no wait), so  *)
(* each is taken once it can be; the transport is assumed to answer or to  *)
(* raise.                                                                  *)
(***************************************************************************)
ClientSteps(t) ==
    /\ \/ Sign(t)
       \/ SendPrivate(t)
       \/ SendPublic(t)
    /\ UNCHANGED <<times, loggers, history>>

TransportSteps(t) ==
    /\ \/ Receive(t)
       \/ TransportFail(t)
    /\ UNCHANGED <<times, loggers, history>>

\* every one of these steps changes pc, so a step of them is seen in progress
progress == <<pc, fault>>

\* calls of a few methods with every response and every transport exception;
\* the clock stays at one reading, which no outcome depends on
NextLive ==
    \/ \E t \in Callers :
           InvokeOf(t, ClockMethods, ClockArgs) /\ UNCHANGED <<times, loggers, history>>
    \/ \E t \in Callers : Sign(t) /\ UNCHANGED <<times, loggers, history>>
    \/ \E t \in Callers : SendPrivate(t) /\ UNCHANGED <<times, loggers, history>>
    \/ \E t \in Callers : SendPublic(t) /\ UNCHANGED <<times, loggers, history>>
    \/ \E t \in Callers : Receive(t) /\ UNCHANGED <<times, loggers, history>>
    \/ \E t \in Callers : TransportFail(t) /\ UNCHANGED <<times, loggers, history>>
    \/ \E t \in Callers : Complete(t) /\ UNCHANGED <<times, loggers, history>>

SpecLive ==
    /\ Init
    /\ [][NextLive]_vars
    /\ \A t \in Callers : WF_progress(ClientSteps(t)) /\ WF_progress(TransportSteps(t))

Outcomes == {"returned", "configuration", "transport", "request", "api"}

\* whether the outcome o is of the class c
OutcomeIs(o, c) ==
    CASE c = "returned" -> o.kind = "return"
      [] c = "configuration" -> o = Raise(BitkubException("API secret not set"))
      [] c = "transport" -> o.kind = "raise" /\ o.error \in TransportExceptions
      [] c = "request" -> /\ o.kind = "raise"
                          /\ o.error.exc = "BitkubException"
                          /\ o.error.message # "API secret not set"
      [] c = "api" -> o.kind = "raise" /\ o.error.exc = "BitkubAPIException"

\* client.py 132-169: what a call ends with, from whether it signs, whether the
\* secret is set, what the transport raised and the response it returned
CallOutcome(private, secret_unset, raised, response) ==
    IF private /\ secret_unset
    THEN Raise(BitkubException("API secret not set"))
    ELSE IF raised # None
         THEN Raise(raised)
         ELSE _handle_response(response)

C30_OneOutcome ==
    \A t \in Callers :
        pc[t] = "done" =>
            /\ Cardinality({c \in Outcomes : OutcomeIs(outcome[t], c)}) = 1
            /\ outcome[t] = CallOutcome(call[t].d.private, SecretUnset, fault[t], resp[t])
            /\ (fault[t] = None) # (resp[t] = None) \/ sends[t] = 0
            /\ OutcomeIs(outcome[t], "configuration") <=> sends[t] = 0
            /\ sends[t] = 0 => call[t].d.private /\ SecretUnset
            /\ sends[t] <= 1

\* C30: every call terminates in exactly one of five outcomes - a returned
\* value, the configuration error, a transport error, the request error, or
\* the API error - and the outcome is a function of (secret configured or not,
\* transport result, status code, body): given a transport that always answers
\* or fails, no call hangs in the client, and no call both sends a request and
\* reports the configuration error.
C30_Terminates ==
    /\ []C30_OneOutcome
    /\ \A t \in Callers : (pc[t] = "called") ~> (pc[t] = "done")

C30_Witness ==
    \E t \in Callers :
        /\ pc[t] = "done"
        /\ call[t].d.private
        /\ sends[t] = 1
        /\ OutcomeIs(outcome[t], "api")
        /\ resp[t].status_code = 200

====
